---- MODULE Spec2Model ----
(***************************************************************************)
(* A model of the Smart Reply content script: the typing / insertion       *)
(* engine (src/src/content/utils/typing.js), the platform adapters         *)
(* (src/src/content/platforms/*.js, src/unnamed/part_002) and the popup    *)
(* controller (SmartReplyPopup in typing.js, SmartReplyApp in index.js),   *)
(* and the completion client of the service worker (ApiService in          *)
(* src/src/shared/api.js).                                                 *)
(*                                                                         *)
(* Everything runs on one event loop: an action is one handler, timer      *)
(* callback or promise continuation, executed up to its next await.        *)
(***************************************************************************)
EXTENDS Integers, Sequences, FiniteSets, Bags, TLC

VARIABLES
    \* ---- host page ----
    elKind,       \* element -> "input" | "textarea" | "editable" | "other"
    value,        \* element -> its value / text content, a sequence of characters
    selection,    \* the window selection: NoSel or [el, off] (a collapsed range)
    recorded,     \* the elements on which an event recorder listens
    events,       \* what the recorder has seen, in dispatch order
    \* ---- insertion engine ----
    runs,         \* run id -> one call of insertText
    sleepReq,     \* the last sleep() request: [run, ms, lo, hi]
    \* ---- platform adapter ----
    platform,     \* the adapter selected at startup (or "base", the bare base class)
    started,      \* platform.init() has run
    mounted,      \* surface -> attached to the document
    visible,      \* surface -> passes isElementVisible
    layout,       \* surface -> what the adapter's selectors find around it
    buttons,      \* container -> trigger controls inserted for it
    processedInputs,  \* the ProcessedSet: containers already handled
    pendingProc,  \* containers with a pending 100 ms process timer
    pendingScans, \* pending delayed scanForInputs timers
    routeTimers,  \* pending 500 ms onRouteChange timers
    \* ---- popup (SmartReplyPopup) and controller (SmartReplyApp) ----
    element,      \* popup.element is a node
    attached,     \* number of popup nodes attached to the document
    isVisible,    \* popup.isVisible
    currentTone,  \* popup.currentTone: the tone button rendered active
    suggestions,  \* popup.suggestions
    isLoading,    \* popup.isLoading
    error,        \* popup.error
    targetInput,  \* popup.targetInput
    context,      \* popup.context
    keydownListener,  \* document 'keydown' -> handleKeyDown is registered
    clickListener,    \* document 'click' -> handleClickOutside is registered
    hideTimers,   \* pending 150 ms timers of hide()
    listenTimers, \* pending 100 ms timers of show()
    currentTriggerButton,  \* app.currentTriggerButton
    settings,     \* app.settings
    requests,     \* bag of GENERATE_REPLIES messages awaiting their response
    lastRequest,  \* history: the GENERATE_REPLIES message sent last
    awaiting,     \* run id -> what the insert handler of that run awaits
    \* ---- completion client (ApiService) ----
    api,          \* the call of generateReplies in progress: position, inputs, result
    \* ---- context extraction and DOM utilities ----
    extracted,    \* the ReplyContext built by the last extractContext call
    observer,     \* observeElements: the tree, the observer and its callback's calls
    waiter,       \* waitForElement: the tree, the promise, its observer and timer
    position,     \* calculatePopupPosition: window, popup size, trigger rectangle, result
    drag,         \* the popup's place on screen, its drag fields and the pointer
    session,      \* history: how often show() ran, and during which showing each
                  \* insertion was chosen
    \* ---- service worker ----
    statsStore    \* the stored statistics, DEFAULT_STATS' nested objects and the
                  \* increment and reset calls in progress

engineVars == <<elKind, value, selection, recorded, events, runs, sleepReq>>
adapterVars == <<platform, started, mounted, visible, layout, buttons,
                 processedInputs, pendingProc, pendingScans, routeTimers>>

popupVars == <<element, attached, isVisible, currentTone, suggestions, isLoading,
               error, targetInput, context, keydownListener, clickListener,
               hideTimers, listenTimers, currentTriggerButton, settings, requests,
               lastRequest, awaiting>>

apiVars == <<api>>

utilVars == <<extracted, observer, waiter, position, drag, session, statsStore>>

vars == <<engineVars, adapterVars, popupVars, apiVars, utilVars>>

----------------------------------------------------------------------------
\* Bounds of the model.

\* Longest text handed to insertText.
MaxTextLen == 2
\* Slots for calls of insertText.
MaxRuns == 2
\* Comment surfaces of the host page.
NSurf == 1
\* Trigger controls one container can collect before the model stops counting.
MaxButtons == 2
\* Pending timers of one kind (delayed scans, route changes, hide, listen).
MaxTimers == 1
\* Lines of the text the completion service answers with.
MaxLines == 4
\* Generation requests awaiting their response.
MaxRequests == 2
\* Configured speeds are the multiples of SpeedStep up to SpeedStep * MaxSpeedIdx.
MaxSpeedIdx == 3
SpeedStep == 20
\* Math.random() is drawn from {0/RandDen, ..., (RandDen-1)/RandDen}.
RandDen == 3

----------------------------------------------------------------------------
\* Values.

Null == 0
NoData == "none"
NoSel == [el |-> Null, off |-> 0]

\* The elements of the host page that can be handed to insertText, one of each
\* kind insertText tells apart (tagName input / textarea, contenteditable, other).
\* One element of each kind insertText distinguishes, then the content-editable
\* editors of the page's further comment surfaces.
ElementKinds ==
    <<"input", "textarea", "editable", "other">> \o [i \in 1..(NSurf - 1) |-> "editable"]
Elements == 1..Len(ElementKinds)
RunIds == 1..MaxRuns
Chars == {"h", "i"}
InitValues == {<<>>, <<"x">>}
Speeds == {SpeedStep * k : k \in 0..MaxSpeedIdx}
Rands == 0..(RandDen - 1)
ThrowPoints == {"none", "write", "dispatch"}

SeqUpTo(S, n) == UNION {[1..k -> S] : k \in 0..n}
Texts == SeqUpTo(Chars, MaxTextLen)

Max(a, b) == IF a >= b THEN a ELSE b
Min(a, b) == IF a <= b THEN a ELSE b

\* An option is given ([given |-> TRUE, v |-> x]) or undefined.
Given(x) == [given |-> TRUE, v |-> x]
UndefBool == [given |-> FALSE, v |-> FALSE]
UndefNum == [given |-> FALSE, v |-> 0]
SimulateOpts == {Given(b) : b \in BOOLEAN} \cup {UndefBool}
SpeedOpts == {Given(n) : n \in Speeds} \cup {UndefNum}

\* options = {} destructuring: `const { simulate = true, speed = 50 } = options`.
DefaultSpeed == 50
OptSimulate(x) == IF x.given THEN x.v ELSE TRUE
OptSpeed(x) == IF x.given THEN x.v ELSE DefaultSpeed

----------------------------------------------------------------------------
\* The page memory an engine step works on.

Mem == [value |-> value, selection |-> selection, events |-> events]

\* element.dispatchEvent(ev): synchronous; the recorder logs the event together
\* with the value the element holds at that moment.
dispatchEvent(m, type, data, el, r) ==
    IF el \in recorded
    THEN [m EXCEPT !.events = Append(@, [type |-> type, data |-> data, el |-> el,
                                         run |-> r, val |-> m.value[el]])]
    ELSE m

\* dispatchKeyEvents with the input notification sent after the key-up.
dispatchKeyEventsInputLast(m, el, c, r) ==
    LET m1 == dispatchEvent(m, "keydown", c, el, r)
        m2 == dispatchEvent(m1, "keypress", c, el, r)
        m3 == dispatchEvent(m2, "keyup", c, el, r)
    IN  dispatchEvent(m3, "input", c, el, r)

\* dispatchKeyEvents(element, char): keydown, keypress, input(data = char), keyup.
dispatchKeyEvents(m, el, c, r) ==
    LET m1 == dispatchEvent(m, "keydown", c, el, r)
        m2 == dispatchEvent(m1, "keypress", c, el, r)
        m3 == dispatchEvent(m2, "input", c, el, r)
    IN  dispatchEvent(m3, "keyup", c, el, r)

\* getRandomDelay scaling the random number by max instead of by the span.
getRandomDelayScaledByMax(lo, hi, k) == ((k * (hi + 1)) \div RandDen) + lo

\* getRandomDelay(min, max) = floor(Math.random() * (max - min + 1)) + min,
\* with Math.random() = k / RandDen.
getRandomDelay(lo, hi, k) == ((k * (hi - lo + 1)) \div RandDen) + lo

\* minDelay / maxDelay of the simulated loops.
minDelay(speed) == Max(10, speed - 20)
maxDelay(speed) == speed + 30

InsertAt(s, off, c) == SubSeq(s, 1, off) \o <<c>> \o SubSeq(s, off + 1, Len(s))

\* Which of the three paths insertText takes for an element.
PathOf(el) ==
    IF elKind[el] \in {"input", "textarea"} THEN "input"
    ELSE IF elKind[el] = "editable" THEN "editable"
    ELSE "exec"

\* range.selectNodeContents(element); range.collapse(false); addRange(range).
cursorToEnd(m, el) == [m EXCEPT !.selection = [el |-> el, off |-> Len(m.value[el])]]

\* One iteration of a simulated loop, without its sleep: the write of character c
\* and its four key events.  throwAt = "write": the DOM write raises;
\* "dispatch": the first dispatchEvent raises.  A step that raises keeps the
\* effects it had before raising.
typeChar(m, el, c, r, throwAt) ==
    IF throwAt = "write" THEN m
    ELSE
      LET path == PathOf(el)
          sel == m.selection
          written ==
            CASE path = "input" ->
                   \* nativeInputValueSetter.call(element, currentValue + char)
                   [m EXCEPT !.value[el] = @ \o <<c>>]
              [] path = "editable" ->
                   \* currentRange.insertNode(textNode); setStartAfter; setEndAfter
                   [m EXCEPT !.value[sel.el] = InsertAt(@, Min(sel.off, Len(@)), c),
                             !.selection = [el |-> sel.el,
                                            off |-> Min(sel.off, Len(m.value[sel.el])) + 1]]
              [] OTHER ->
                   \* document.execCommand('insertText', false, char): acts on the
                   \* current selection when there is one, else does nothing
                   IF sel = NoSel THEN m
                   ELSE [m EXCEPT !.value[sel.el] = InsertAt(@, Min(sel.off, Len(@)), c),
                                  !.selection = [el |-> sel.el,
                                                 off |-> Min(sel.off, Len(m.value[sel.el])) + 1]]
      IN IF throwAt = "dispatch" THEN written
         ELSE dispatchKeyEvents(written, el, c, r)

\* selection.getRangeAt(0) raises IndexSizeError when the selection is empty.
charThrows(m, el, throwAt) ==
    \/ throwAt # "none"
    \/ PathOf(el) = "editable" /\ m.selection = NoSel

\* The direct write appending to the value instead of replacing it.
directValueAppends(old, text) == old \o text

\* nativeInputValueSetter.call(element, text) / element.value = text.
directValue(old, text) == text

\* The direct (simulate = false) branch of the three paths.
directInsert(m, el, text, r, throwAt) ==
    IF throwAt = "write" THEN m
    ELSE
      LET path == PathOf(el)
          sel == m.selection
      IN CASE path = "input" ->
                LET w == [m EXCEPT !.value[el] = directValue(@, text)]
                IN IF throwAt = "dispatch" THEN w
                   ELSE dispatchEvent(dispatchEvent(w, "input", NoData, el, r),
                                      "change", NoData, el, r)
           [] path = "editable" ->
                \* element.textContent = text; dispatch input; cursor to end
                LET w == [m EXCEPT !.value[el] = text,
                                   !.selection = IF sel.el = el THEN NoSel ELSE sel]
                IN IF throwAt = "dispatch" THEN w
                   ELSE cursorToEnd(dispatchEvent(w, "input", NoData, el, r), el)
           [] OTHER ->
                \* document.execCommand('insertText', false, text)
                IF sel = NoSel THEN m
                ELSE [m EXCEPT !.value[sel.el] =
                                   SubSeq(@, 1, Min(sel.off, Len(@))) \o text
                                   \o SubSeq(@, Min(sel.off, Len(@)) + 1, Len(@)),
                               !.selection = [el |-> sel.el,
                                              off |-> Min(sel.off, Len(m.value[sel.el]))
                                                      + Len(text)]]

\* A simulated path that ends without any final notification.
finishSimulatedSilent(m, el, r) == m

\* What follows the loop of a simulated path.
finishSimulated(m, el, r) ==
    CASE PathOf(el) = "input" -> dispatchEvent(m, "change", NoData, el, r)
      [] PathOf(el) = "editable" -> dispatchEvent(m, "input", NoData, el, r)
      [] OTHER -> m

\* The catch block of insertText: log and return false.
insertTextCatchRethrows == "rejected"
insertTextCatch == "false"

FreeRun == [pc |-> "free", el |-> Null, text |-> <<>>, simulate |-> FALSE,
            speed |-> 0, i |-> 0, start |-> <<>>, threw |-> FALSE,
            result |-> "pending"]

commit(m) ==
    /\ value' = m.value
    /\ selection' = m.selection
    /\ events' = m.events

\* insertText(element, text, options), up to its first await (or to its end).
InsertText(r, el, text, optSimulate, optSpeed, throwAt, k) ==
    /\ runs[r].pc = "free"
    /\ LET simulate == OptSimulate(optSimulate)
           speed == OptSpeed(optSpeed)
           call == [FreeRun EXCEPT !.el = el, !.text = text, !.simulate = simulate,
                                   !.speed = speed]
       IN
       IF el = Null \/ text = <<>>
       THEN \* if (!element || !text) return false
            /\ runs' = [runs EXCEPT ![r] = [call EXCEPT !.pc = "settled",
                                                        !.result = "false"]]
            /\ UNCHANGED <<value, selection, events, sleepReq>>
       ELSE
         LET begun == [call EXCEPT !.start = value[el]] IN
         IF ~simulate
         THEN /\ PathOf(el) = "exec" => throwAt # "dispatch"
              /\ commit(directInsert(Mem, el, text, r, throwAt))
              /\ runs' = [runs EXCEPT ![r] =
                    [begun EXCEPT !.pc = "settled",
                                    !.i = IF throwAt = "none" THEN Len(text) ELSE 0,
                                    !.threw = (throwAt # "none"),
                                    !.result = IF throwAt = "none" THEN "true"
                                               ELSE insertTextCatch]]
              /\ UNCHANGED sleepReq
         ELSE
           LET m0 == IF PathOf(el) = "editable" /\ throwAt # "write"
                     THEN cursorToEnd(Mem, el) ELSE Mem
           IN
           /\ commit(typeChar(m0, el, text[1], r, throwAt))
           /\ IF charThrows(m0, el, throwAt)
              THEN /\ runs' = [runs EXCEPT ![r] =
                         [begun EXCEPT !.pc = "settled", !.threw = TRUE,
                                         !.result = insertTextCatch]]
                   /\ UNCHANGED sleepReq
              ELSE /\ runs' = [runs EXCEPT ![r] =
                         [begun EXCEPT !.pc = "sleeping", !.i = 1]]
                   /\ sleepReq' = [run |-> r,
                                   ms |-> getRandomDelay(minDelay(speed), maxDelay(speed), k),
                                   lo |-> minDelay(speed), hi |-> maxDelay(speed)]
    /\ UNCHANGED <<elKind, recorded>>

\* A loop that gives up once the popup is no longer shown: the remaining
\* characters are skipped and the call resolves true.
SleepDoneUntilHidden(r, throwAt, k) ==
    /\ runs[r].pc = "sleeping"
    /\ LET run == runs[r] IN
       IF run.i < Len(run.text) /\ isVisible
       THEN /\ commit(typeChar(Mem, run.el, run.text[run.i + 1], r, throwAt))
            /\ IF charThrows(Mem, run.el, throwAt)
               THEN /\ runs' = [runs EXCEPT ![r] =
                          [run EXCEPT !.pc = "settled", !.threw = TRUE,
                                      !.result = insertTextCatch]]
                    /\ UNCHANGED sleepReq
               ELSE /\ runs' = [runs EXCEPT ![r] = [run EXCEPT !.i = run.i + 1]]
                    /\ sleepReq' = [run |-> r,
                                    ms |-> getRandomDelay(minDelay(run.speed),
                                                          maxDelay(run.speed), k),
                                    lo |-> minDelay(run.speed), hi |-> maxDelay(run.speed)]
       ELSE /\ throwAt = "none"
            /\ k = 0
            /\ commit(finishSimulated(Mem, run.el, r))
            /\ runs' = [runs EXCEPT ![r] = [run EXCEPT !.pc = "settled",
                                                       !.result = "true"]]
            /\ UNCHANGED sleepReq
    /\ UNCHANGED <<elKind, recorded>>
\* The continuation of a simulated run after `await sleep(...)`: the next
\* iteration of the loop, or the end of the loop and `return true`.
SleepDone(r, throwAt, k) ==
    /\ runs[r].pc = "sleeping"
    /\ LET run == runs[r] IN
       IF run.i < Len(run.text)
       THEN /\ commit(typeChar(Mem, run.el, run.text[run.i + 1], r, throwAt))
            /\ IF charThrows(Mem, run.el, throwAt)
               THEN /\ runs' = [runs EXCEPT ![r] =
                          [run EXCEPT !.pc = "settled", !.threw = TRUE,
                                      !.result = insertTextCatch]]
                    /\ UNCHANGED sleepReq
               ELSE /\ runs' = [runs EXCEPT ![r] = [run EXCEPT !.i = run.i + 1]]
                    /\ sleepReq' = [run |-> r,
                                    ms |-> getRandomDelay(minDelay(run.speed),
                                                          maxDelay(run.speed), k),
                                    lo |-> minDelay(run.speed), hi |-> maxDelay(run.speed)]
       ELSE /\ throwAt = "none"
            /\ k = 0
            /\ commit(finishSimulated(Mem, run.el, r))
            /\ runs' = [runs EXCEPT ![r] = [run EXCEPT !.pc = "settled",
                                                       !.result = "true"]]
            /\ UNCHANGED sleepReq
    /\ UNCHANGED <<elKind, recorded>>

----------------------------------------------------------------------------
\* Platform adapters.

Platforms == {"youtube", "instagram", "linkedin", "twitter"}
Surfaces == 1..NSurf

\* What the adapter's selectors find around a surface.
\*   youtube:   "full" | "noEditable" (no #contenteditable-root)
\*              | "noAnchor" (no #submit-button parent, #buttons or ytd-button-renderer)
\*   instagram: "formTextbox" (form holding a contenteditable textbox)
\*              | "formTextarea" | "bareTextbox" (textbox outside any form)
\*              | "formEmpty" (form without textarea or textbox)
\*   linkedin:  "full" | "noContainer" (a Quill editor outside any comment box)
\*   twitter, base: "full"
Layouts(pf) ==
    CASE pf = "youtube" -> {"full", "noEditable", "noAnchor"}
      [] pf = "instagram" -> {"formTextbox", "formTextarea", "bareTextbox", "formEmpty"}
      [] pf = "linkedin" -> {"full", "noContainer"}
      [] OTHER -> {"full"}

\* The containers the adapter keeps in its ProcessedSet: on Instagram a form and
\* a textbox are distinct containers of one surface.
Roles == {"main", "form", "textbox"}
Keys == Roles \X Surfaces
RolesOf(pf) == IF pf = "instagram" THEN {"form", "textbox"} ELSE {"main"}

\* The adapter together with the part of the page its routines read and write.
Adapter ==
    [platform |-> platform, mounted |-> mounted, visible |-> visible,
     layout |-> layout, buttons |-> buttons, processed |-> processedInputs]

HasForm(a, s) == a.layout[s] \in {"formTextbox", "formTextarea", "formEmpty"}
HasTextbox(a, s) == a.layout[s] \in {"formTextbox", "bareTextbox"}

\* A trigger control has been created and inserted for container k, and k recorded.
injectAndRecord(a, k) ==
    [a EXCEPT !.buttons[k] = @ + 1, !.processed = @ \cup {k}]

\* The ProcessedSet test at the head of every process routine, dropped.
alreadyProcessedNever(a, k) == FALSE

\* this.processedInputs.has(container)
alreadyProcessed(a, k) == k \in a.processed

\* BasePlatform.processInput(inputElement)
processInput(a, s) ==
    LET k == <<"main", s>> IN
    IF alreadyProcessed(a, k) THEN a
    ELSE IF ~a.visible[s] THEN a
    ELSE injectAndRecord(a, k)

\* A processCommentBox that records the container also when it finds no anchor.
processCommentBoxRecordsMiss(a, s) ==
    LET k == <<"main", s>> IN
    IF alreadyProcessed(a, k) THEN a
    ELSE IF a.layout[s] = "noEditable" THEN a
    ELSE IF a.layout[s] = "noAnchor" THEN [a EXCEPT !.processed = @ \cup {k}]
    ELSE injectAndRecord(a, k)

\* YouTubePlatform.processCommentBox(container)
processCommentBox(a, s) ==
    LET k == <<"main", s>> IN
    IF alreadyProcessed(a, k) THEN a
    ELSE IF a.layout[s] = "noEditable" THEN a
    ELSE IF a.layout[s] = "noAnchor" THEN a
    ELSE injectAndRecord(a, k)

\* InstagramPlatform.processForm(form)
processForm(a, s) ==
    LET k == <<"form", s>> IN
    IF alreadyProcessed(a, k) THEN a
    ELSE IF a.layout[s] = "formEmpty" THEN a
    ELSE injectAndRecord(a, k)

\* InstagramPlatform.processTextbox(textbox)
processTextbox(a, s) ==
    LET k == <<"textbox", s>> IN
    IF HasForm(a, s) /\ alreadyProcessed(a, <<"form", s>>) THEN a
    ELSE IF alreadyProcessed(a, k) THEN a
    ELSE injectAndRecord(a, k)

\* LinkedInPlatform.processEditor(editor) / TwitterPlatform.processEditor(editor):
\* every placement falls back to editor.parentElement.appendChild(button).
processEditor(a, s) ==
    LET k == <<"main", s>> IN
    IF a.layout[s] = "noContainer" \/ alreadyProcessed(a, k) THEN a
    ELSE injectAndRecord(a, k)

\* Container k is an element of the page the adapter's routine can be handed.
Present(a, k) ==
    /\ a.mounted[k[2]]
    /\ k[1] \in RolesOf(a.platform)
    /\ (k[1] = "form") => HasForm(a, k[2])
    /\ (k[1] = "textbox") => HasTextbox(a, k[2])

\* The routine the adapter applies to container k.
processKey(a, k) ==
    LET s == k[2] IN
    IF ~Present(a, k) THEN a
    ELSE CASE a.platform = "youtube" -> processCommentBox(a, s)
           [] a.platform = "instagram" /\ k[1] = "form" -> processForm(a, s)
           [] a.platform = "instagram" /\ k[1] = "textbox" -> processTextbox(a, s)
           [] a.platform \in {"linkedin", "twitter"} -> processEditor(a, s)
           [] OTHER -> processInput(a, s)

\* document.querySelectorAll(...).forEach(process) over the surfaces 1..n.
RECURSIVE scanRole(_, _, _)
scanRole(a, role, n) ==
    IF n = 0 THEN a
    ELSE processKey(scanRole(a, role, n - 1), <<role, n>>)

\* scanForInputs(): Instagram sweeps all forms, then all textboxes; LinkedIn's
\* selectors only match editors inside a comment box; the base class scans nothing.
scanForInputs(a) ==
    CASE a.platform = "instagram" ->
            scanRole(scanRole(a, "form", NSurf), "textbox", NSurf)
      [] a.platform = "base" -> a
      [] OTHER -> scanRole(a, "main", NSurf)

\* BasePlatform.onRouteChange(): a fresh ProcessedSet, then a scan.
onRouteChange(a) == scanForInputs([a EXCEPT !.processed = {}])

\* The callbacks the observers of setupObservers() run for a surface s that is
\* found (at init) or added (later): what is processed at once ...
observedNow(a, s) ==
    IF ~a.mounted[s] THEN a
    ELSE CASE a.platform = "youtube" -> processKey(a, <<"main", s>>)
           [] a.platform = "instagram" -> processKey(a, <<"textbox", s>>)
           [] a.platform = "linkedin" -> processKey(a, <<"main", s>>)
           [] OTHER -> a

\* ... which containers get a setTimeout(process, 100) ...
observedLater(a, s) ==
    IF ~a.mounted[s] THEN {}
    ELSE CASE a.platform = "instagram" -> IF HasForm(a, s) THEN {<<"form", s>>} ELSE {}
           [] a.platform = "twitter" -> {<<"main", s>>}
           [] OTHER -> {}

\* ... and whether a setTimeout(scanForInputs, 100) is scheduled.
observedScan(a, s) ==
    a.mounted[s] /\ a.platform = "linkedin" /\ a.layout[s] = "full"

RECURSIVE observeAll(_, _)
observeAll(a, n) ==
    IF n = 0 THEN a ELSE observedNow(observeAll(a, n - 1), n)

\* The routines' effect on the page and on the adapter; a container's controls
\* are counted up to MaxButtons.
commitAdapter(a) ==
    /\ buttons' = [k \in Keys |-> Min(a.buttons[k], MaxButtons)]
    /\ processedInputs' = a.processed

\* BasePlatform.init(onButtonClick): setupObservers(), whose observers call back
\* at once for every element already present, then scanForInputs().
PlatformInit ==
    /\ ~started
    /\ started' = TRUE
    /\ commitAdapter(scanForInputs(observeAll(Adapter, NSurf)))
    /\ pendingProc' = UNION {observedLater(Adapter, s) : s \in Surfaces}
    /\ pendingScans' = IF \E s \in Surfaces : observedScan(Adapter, s) THEN 1 ELSE 0
    /\ UNCHANGED <<platform, mounted, visible, layout, routeTimers>>

\* The page attaches surface s; once the adapter is running its mutation
\* observers call back for it.
Mount(s, lay, vis) ==
    /\ ~mounted[s]
    /\ lay \in Layouts(platform)
    /\ mounted' = [mounted EXCEPT ![s] = TRUE]
    /\ visible' = [visible EXCEPT ![s] = vis]
    /\ layout' = [layout EXCEPT ![s] = lay]
    /\ LET page == [Adapter EXCEPT !.mounted[s] = TRUE, !.visible[s] = vis,
                                   !.layout[s] = lay]
       IN IF started
          THEN /\ commitAdapter(observedNow(page, s))
               /\ pendingProc' = pendingProc \cup observedLater(page, s)
               /\ pendingScans' = IF observedScan(page, s)
                                  THEN Min(pendingScans + 1, MaxTimers)
                                  ELSE pendingScans
          ELSE UNCHANGED <<buttons, processedInputs, pendingProc, pendingScans>>
    /\ UNCHANGED <<platform, started, routeTimers>>

KeysOf(s) == {k \in Keys : k[2] = s}

\* The page detaches surface s: its trigger controls leave with it, the weak
\* ProcessedSet forgets it, and a timer still holding the detached element can
\* only touch the detached tree.
Unmount(s) ==
    /\ mounted[s]
    /\ mounted' = [mounted EXCEPT ![s] = FALSE]
    /\ visible' = [visible EXCEPT ![s] = FALSE]
    /\ buttons' = [k \in Keys |-> IF k[2] = s THEN 0 ELSE buttons[k]]
    /\ processedInputs' = processedInputs \ KeysOf(s)
    /\ pendingProc' = pendingProc \ KeysOf(s)
    /\ UNCHANGED <<platform, started, layout, pendingScans, routeTimers>>

\* The page shows or hides a mounted surface (no node is added: no observer runs).
SetVisible(s, vis) ==
    /\ mounted[s]
    /\ visible[s] # vis
    /\ visible' = [visible EXCEPT ![s] = vis]
    /\ UNCHANGED <<platform, started, mounted, layout, buttons, processedInputs,
                   pendingProc, pendingScans, routeTimers>>

\* setTimeout(() => this.processForm(element) / this.processEditor(element), 100)
ProcessTimer(k) ==
    /\ k \in pendingProc
    /\ pendingProc' = pendingProc \ {k}
    /\ commitAdapter(processKey(Adapter, k))
    /\ UNCHANGED <<platform, started, mounted, visible, layout, pendingScans,
                   routeTimers>>

\* setTimeout(() => this.scanForInputs(), 100 | 200)
ScanTimer ==
    /\ pendingScans > 0
    /\ pendingScans' = pendingScans - 1
    /\ commitAdapter(scanForInputs(Adapter))
    /\ UNCHANGED <<platform, started, mounted, visible, layout, pendingProc,
                   routeTimers>>

\* A reply or quote dialog is added to the page: the dialog observers of the
\* YouTube and Twitter adapters schedule a scan.
DialogAppears ==
    /\ started
    /\ platform \in {"youtube", "twitter"}
    /\ pendingScans < MaxTimers
    /\ pendingScans' = pendingScans + 1
    /\ UNCHANGED <<platform, started, mounted, visible, layout, buttons,
                   processedInputs, pendingProc, routeTimers>>

\* A subclass hands a mounted element to the inherited processInput.
ProcessInput(s) ==
    /\ started
    /\ platform = "base"
    /\ mounted[s]
    /\ commitAdapter(processInput(Adapter, s))
    /\ UNCHANGED <<platform, started, mounted, visible, layout, pendingProc,
                   pendingScans, routeTimers>>

\* setTimeout(() => this.platform.onRouteChange(), 500) of handleNavigation
scheduleRouteChange ==
    /\ started
    /\ routeTimers < MaxTimers
    /\ routeTimers' = routeTimers + 1
    /\ UNCHANGED <<platform, started, mounted, visible, layout, buttons,
                   processedInputs, pendingProc, pendingScans>>

\* The 500 ms timer of handleNavigation fires: platform.onRouteChange().
OnRouteChange ==
    /\ routeTimers > 0
    /\ routeTimers' = routeTimers - 1
    /\ commitAdapter(onRouteChange(Adapter))
    /\ UNCHANGED <<platform, started, mounted, visible, layout, pendingProc,
                   pendingScans>>

AdapterInit ==
    /\ platform \in Platforms \cup {"base"}
    /\ started = FALSE
    /\ layout \in [Surfaces -> Layouts(platform)]
    /\ mounted \in [Surfaces -> BOOLEAN]
    /\ visible \in [Surfaces -> BOOLEAN]
    /\ \A s \in Surfaces : visible[s] => mounted[s]
    /\ buttons = [k \in Keys |-> 0]
    /\ processedInputs = {}
    /\ pendingProc = {}
    /\ pendingScans = 0
    /\ routeTimers = 0

\* No adapter is running.
AdapterIdle ==
    /\ platform = "base"
    /\ started = FALSE
    /\ layout = [s \in Surfaces |-> "full"]
    /\ mounted = [s \in Surfaces |-> FALSE]
    /\ visible = [s \in Surfaces |-> FALSE]
    /\ buttons = [k \in Keys |-> 0]
    /\ processedInputs = {}
    /\ pendingProc = {}
    /\ pendingScans = 0
    /\ routeTimers = 0

----------------------------------------------------------------------------
\* The popup (SmartReplyPopup) and the controller (SmartReplyApp).

Tones == {"auto", "friendly"}
Posts == {"p1", "p2"}
SUGGESTIONS_COUNT == 3
NoError == "none"
NoContext == [surface |-> Null, post |-> "none"]
NoButton == [key |-> <<"none", Null>>, n |-> Null]
NoRequest == [context |-> NoContext, tone |-> "none"]

\* An adapter that asks for simulated typing on every platform.
requiresTypingSimulationAlways(pf) == TRUE

\* platform.requiresTypingSimulation()
requiresTypingSimulation(pf) == pf \in {"instagram", "linkedin", "twitter"}

\* platform.getInputElement(...): the element text is inserted into. The first
\* surface is a textarea on Instagram and a content-editable editor elsewhere.
getInputElement(pf, s) ==
    IF s = 1 THEN (IF pf = "instagram" THEN 2 ELSE 3) ELSE 3 + s

\* The i-th suggestion of a response: "h", "hi", "hih", ... up to MaxTextLen
\* characters.
SuggestionText(i) == [j \in 1..Min(i, MaxTextLen) |-> IF j % 2 = 1 THEN "h" ELSE "i"]

\* The suggestions of a response of n entries to request req; each entry keeps
\* the context and tone it was generated for.
SuggestionList(req, n) ==
    [i \in 1..n |-> [text |-> SuggestionText(i), context |-> req.context,
                     tone |-> req.tone]]

\* What chrome.runtime.sendMessage(GENERATE_REPLIES) can come back with:
\*   "success"  {success: true, suggestions} with 1..SUGGESTIONS_COUNT entries
\*   "fallback" {success: false, error, suggestions: fallbacks}
\*   "failed"   {success: false, error} (the service worker's catch)
\*   "rejected" the promise rejects
Outcomes ==
    {[kind |-> "success", n |-> n] : n \in {1, SUGGESTIONS_COUNT}}
    \cup {[kind |-> "fallback", n |-> SUGGESTIONS_COUNT],
          [kind |-> "failed", n |-> 0], [kind |-> "rejected", n |-> 0]}

\* A response whose only suggestion is empty: parseResponse keeps a line such
\* as '1. "', whose text is empty once the quote is stripped.
BlankOutcome == [kind |-> "blank", n |-> 1]
BlankList(req) == <<[text |-> <<>>, context |-> req.context, tone |-> req.tone]>>

Popup ==
    [element |-> element, attached |-> attached, isVisible |-> isVisible,
     currentTone |-> currentTone,
     suggestions |-> suggestions, isLoading |-> isLoading, error |-> error,
     targetInput |-> targetInput, context |-> context,
     keydownListener |-> keydownListener, clickListener |-> clickListener,
     hideTimers |-> hideTimers, listenTimers |-> listenTimers]

\* The node show() works on: when popup.element is null, createElement() makes
\* a node, which the document does not contain, so that show() appends it; an
\* existing node is in the document already, because the only removal is the
\* one of the hide timer, which also sets popup.element to null.
showElement(p) ==
    IF p.element THEN p ELSE [p EXCEPT !.element = TRUE, !.attached = @ + 1]

\* popup.show(triggerButton, targetInput, context, callbacks)
show(p, target, ctx) ==
    [showElement(p) EXCEPT !.targetInput = target, !.context = ctx,
                           !.suggestions = <<>>, !.error = NoError,
                           !.isLoading = TRUE, !.isVisible = TRUE,
                           !.keydownListener = TRUE, !.listenTimers = @ + 1]

\* The callback of hide()'s timer without the removal of the node.
hideTimerKeepsNode(p) ==
    [p EXCEPT !.hideTimers = @ - 1, !.element = FALSE, !.isVisible = FALSE]

\* The callback of hide()'s timer: element?.remove(); element = null;
\* isVisible = false.
hideTimerFires(p) ==
    [p EXCEPT !.hideTimers = @ - 1,
              !.attached = IF p.element THEN @ - 1 ELSE @,
              !.element = FALSE, !.isVisible = FALSE]

\* hide() without its timer: the handlers are taken down, the node stays.
hideListenersOnly(p) ==
    IF ~p.isVisible \/ ~p.element THEN p
    ELSE [p EXCEPT !.keydownListener = FALSE, !.clickListener = FALSE]

\* popup.hide()
hide(p) ==
    IF ~p.isVisible \/ ~p.element THEN p
    ELSE [p EXCEPT !.hideTimers = @ + 1, !.keydownListener = FALSE,
                   !.clickListener = FALSE]

\* popup.setLoading(true)
setLoading(p) == [p EXCEPT !.isLoading = TRUE, !.error = NoError, !.suggestions = <<>>]

\* popup.setSuggestions(list)
setSuggestions(p, list) ==
    [p EXCEPT !.isLoading = FALSE, !.error = NoError, !.suggestions = list]

\* popup.setError(message)
setError(p, message) == [p EXCEPT !.isLoading = FALSE, !.error = message]

\* popup.isOpen()
isOpen(p) == p.isVisible

\* What the content area shows (getContentTemplate).
Rendered(p) ==
    IF p.isLoading THEN "loading"
    ELSE IF p.error # NoError THEN "error"
    ELSE IF p.suggestions = <<>> THEN "empty"
    ELSE "suggestions"

commitPopup(p) ==
    /\ p.hideTimers <= MaxTimers
    /\ p.listenTimers <= MaxTimers
    /\ element' = p.element
    /\ attached' = p.attached
    /\ isVisible' = p.isVisible
    /\ currentTone' = p.currentTone
    /\ suggestions' = p.suggestions
    /\ isLoading' = p.isLoading
    /\ error' = p.error
    /\ targetInput' = p.targetInput
    /\ context' = p.context
    /\ keydownListener' = p.keydownListener
    /\ clickListener' = p.clickListener
    /\ hideTimers' = p.hideTimers
    /\ listenTimers' = p.listenTimers

\* app.generateReplies(context, tone) up to its await: setLoading(true), then
\* the GENERATE_REPLIES message goes out.
sendGenerate(p, ctx, tone) ==
    /\ BagCardinality(requests) < MaxRequests
    /\ commitPopup(setLoading(p))
    /\ requests' = requests (+) SetToBag({[context |-> ctx, tone |-> tone]})
    /\ lastRequest' = [context |-> ctx, tone |-> tone]

\* What handleClickOutside does with a click whose target is not (or no longer)
\* inside the popup element and not on a trigger control.
handleClickOutside(p) == IF p.element THEN hide(p) ELSE p

\* The trigger controls of the page.
TriggerButtons ==
    {[key |-> k, n |-> i] : k \in Keys, i \in 1..MaxButtons}

\* A click on trigger control b of surface b.key[2], the page showing post:
\* createTriggerButton's listener, then app.handleButtonClick.
HandleButtonClick(b, post) ==
    /\ started
    /\ mounted[b.key[2]]
    /\ b.n <= buttons[b.key]
    /\ IF isOpen(Popup) /\ currentTriggerButton = b
       THEN /\ commitPopup(hide(Popup))
            /\ currentTriggerButton' = NoButton
            /\ UNCHANGED <<requests, lastRequest>>
       ELSE LET ctx == [surface |-> b.key[2], post |-> post]
                target == getInputElement(platform, b.key[2])
            IN /\ currentTriggerButton' = b
               /\ sendGenerate(show(Popup, target, ctx), ctx, settings.defaultTone)
    /\ UNCHANGED <<settings, awaiting>>

\* The response to pending request req arrives: the rest of generateReplies.
Respond(req, outcome) ==
    /\ BagIn(req, requests)
    /\ requests' = requests (-) SetToBag({req})
    /\ commitPopup(
          CASE outcome.kind \in {"success", "fallback"} ->
                  setSuggestions(Popup, SuggestionList(req, outcome.n))
            [] outcome.kind = "blank" -> setSuggestions(Popup, BlankList(req))
            [] outcome.kind = "failed" -> setError(Popup, "failed")
            [] OTHER -> setError(Popup, "unreachable"))
    /\ UNCHANGED <<currentTriggerButton, settings, lastRequest, awaiting>>

\* A regenerate() that asks for the persisted default tone.
regenerateDefaultTone(p) == sendGenerate(p, p.context, settings.defaultTone)

\* popup.regenerate(): setLoading(true), then onRegenerate -> generateReplies.
regenerate(p) == sendGenerate(p, p.context, p.currentTone)

\* A click on a tone button of the popup: setTone(tone).
ClickTone(tone) ==
    /\ element
    /\ IF tone = currentTone
       THEN UNCHANGED <<popupVars>>
       ELSE /\ regenerate([Popup EXCEPT !.currentTone = tone])
            /\ UNCHANGED <<currentTriggerButton, settings, awaiting>>

\* A click on the Regenerate button of the popup's footer.
ClickRegenerate ==
    /\ element
    /\ regenerate(Popup)
    /\ UNCHANGED <<currentTriggerButton, settings, awaiting>>

\* A click on the Try Again button of the error view: regenerate(), whose
\* setLoading(true) re-renders the content area and so detaches the button that
\* was clicked; the click then bubbles to the document, where handleClickOutside
\* (if registered) no longer finds its target inside the popup. hide() and
\* setLoading() write disjoint fields, so their order does not matter.
ClickRetry ==
    /\ element
    /\ Rendered(Popup) = "error"
    /\ regenerate(IF clickListener THEN handleClickOutside(Popup) ELSE Popup)
    /\ UNCHANGED <<currentTriggerButton, settings, awaiting>>

\* A click on the popup's close button.
ClickClose ==
    /\ element
    /\ commitPopup(hide(Popup))
    /\ UNCHANGED <<currentTriggerButton, settings, requests, lastRequest, awaiting>>

\* handleKeyDown for the Escape key.
KeyEscape ==
    /\ keydownListener
    /\ commitPopup(hide(Popup))
    /\ UNCHANGED <<currentTriggerButton, settings, requests, lastRequest, awaiting>>

\* handleClickOutside for a click that is neither in the popup nor on a trigger
\* control.
ClickOutside ==
    /\ clickListener
    /\ commitPopup(handleClickOutside(Popup))
    /\ UNCHANGED <<currentTriggerButton, settings, requests, lastRequest, awaiting>>

\* The 150 ms timer of hide().
HideTimer ==
    /\ hideTimers > 0
    /\ commitPopup(hideTimerFires(Popup))
    /\ UNCHANGED <<currentTriggerButton, settings, requests, lastRequest, awaiting>>

\* The 100 ms timer of show().
ListenTimer ==
    /\ listenTimers > 0
    /\ commitPopup([Popup EXCEPT !.listenTimers = @ - 1, !.clickListener = TRUE])
    /\ UNCHANGED <<currentTriggerButton, settings, requests, lastRequest, awaiting>>

\* The first entry, whatever card was clicked.
firstSuggestion(p, i) == p.suggestions[1]

\* const suggestion = this.suggestions[index]
chosenSuggestion(p, i) == p.suggestions[i]

\* A click on the i-th suggestion card (or its Insert button):
\* handleSuggestionAction('insert', i), which returns for an empty suggestion
\* and otherwise calls app.handleInsert -> insertText, which becomes run r, the
\* first unused slot. The target holds at most MaxRuns texts.
ClickSuggestion(i, r, throwAt) ==
    /\ element
    /\ Rendered(Popup) = "suggestions"
    /\ i \in 1..Len(suggestions)
    /\ IF chosenSuggestion(Popup, i).text = <<>>
       THEN UNCHANGED <<engineVars, awaiting>>
       ELSE /\ awaiting[r] = "none"
            /\ \A q \in 1..(r - 1) : awaiting[q] # "none"
            /\ Len(value[targetInput]) + Len(chosenSuggestion(Popup, i).text)
                   <= MaxRuns * MaxTextLen
            /\ InsertText(r, targetInput, chosenSuggestion(Popup, i).text,
                          Given(requiresTypingSimulation(platform)
                                /\ settings.typingSimulation),
                          Given(settings.typingSpeed), throwAt, 0)
            /\ awaiting' = [awaiting EXCEPT ![r] = "insert"]
    /\ UNCHANGED <<element, attached, isVisible, currentTone, suggestions, isLoading,
                   error, targetInput, context, keydownListener, clickListener,
                   hideTimers, listenTimers, currentTriggerButton, settings, requests,
                   lastRequest>>

\* insertText of run r has resolved: the rest of handleInsert. On success the
\* UPDATE_STATS message goes out; otherwise handleSuggestionAction goes on to hide().
InsertResolved(r) ==
    /\ awaiting[r] = "insert"
    /\ runs[r].pc = "settled"
    /\ IF runs[r].result = "true"
       THEN /\ awaiting' = [awaiting EXCEPT ![r] = "stats"]
            /\ UNCHANGED <<runs, element, attached, isVisible, currentTone, suggestions,
                           isLoading, error, targetInput, context, keydownListener,
                           clickListener, hideTimers, listenTimers>>
       ELSE /\ awaiting' = [awaiting EXCEPT ![r] = "none"]
            /\ runs' = [runs EXCEPT ![r] = FreeRun]
            /\ commitPopup(hide(Popup))
    /\ UNCHANGED <<elKind, value, selection, recorded, events, sleepReq,
                   currentTriggerButton, settings, requests, lastRequest>>

\* The UPDATE_STATS message of run r is answered (or fails): handleInsert
\* returns and handleSuggestionAction goes on to hide().
StatsResolved(r) ==
    /\ awaiting[r] = "stats"
    /\ awaiting' = [awaiting EXCEPT ![r] = "none"]
    /\ runs' = [runs EXCEPT ![r] = FreeRun]
    /\ commitPopup(hide(Popup))
    /\ UNCHANGED <<elKind, value, selection, recorded, events, sleepReq,
                   currentTriggerButton, settings, requests, lastRequest>>

\* app.handleNavigation(): close the popup if open, re-scan in 500 ms.
HandleNavigation ==
    /\ commitPopup(IF isOpen(Popup) THEN hide(Popup) ELSE Popup)
    /\ scheduleRouteChange
    /\ UNCHANGED <<currentTriggerButton, settings, requests, lastRequest, awaiting>>

\* The popup and controller right after SmartReplyApp.init().
PopupInit ==
    /\ element = FALSE
    /\ attached = 0
    /\ isVisible = FALSE
    /\ currentTone = "auto"
    /\ suggestions = <<>>
    /\ isLoading = FALSE
    /\ error = NoError
    /\ targetInput = Null
    /\ context = NoContext
    /\ keydownListener = FALSE
    /\ clickListener = FALSE
    /\ hideTimers = 0
    /\ listenTimers = 0
    /\ currentTriggerButton = NoButton
    /\ settings \in [defaultTone : Tones, typingSimulation : BOOLEAN,
                     typingSpeed : {DefaultSpeed}]
    /\ requests = EmptyBag
    /\ lastRequest = NoRequest
    /\ awaiting = [r \in RunIds |-> "none"]

\* The popup is never opened.
PopupIdle ==
    /\ PopupInit
    /\ settings = [defaultTone |-> "auto", typingSimulation |-> TRUE,
                   typingSpeed |-> DefaultSpeed]

----------------------------------------------------------------------------
\* The completion client: ApiService.generateReplies and what it calls.
\* A text is a sequence of characters; NL is the line break.

NL == "\n"
IsSpaceChar(c) == c \in {" ", NL}
IsDigitChar(c) == c \in {"0", "1", "2", "3", "4", "5", "6", "7", "8", "9"}
IsQuoteChar(c) == c \in {"\"", "'"}

\* How many characters at the start (end) of s are white space, or digits.
LeadingSpaces(s) ==
    CHOOSE n \in 0..Len(s) :
        /\ \A j \in 1..n : IsSpaceChar(s[j])
        /\ n < Len(s) => ~IsSpaceChar(s[n + 1])
TrailingSpaces(s) ==
    CHOOSE n \in 0..Len(s) :
        /\ \A j \in 1..n : IsSpaceChar(s[Len(s) + 1 - j])
        /\ n < Len(s) => ~IsSpaceChar(s[Len(s) - n])
LeadingDigits(s) ==
    CHOOSE n \in 0..Len(s) :
        /\ \A j \in 1..n : IsDigitChar(s[j])
        /\ n < Len(s) => ~IsDigitChar(s[n + 1])
LeadingBreaks(s) ==
    CHOOSE n \in 0..Len(s) :
        /\ \A j \in 1..n : s[j] = NL
        /\ n < Len(s) => s[n + 1] # NL

\* String.prototype.trim
trim(s) ==
    LET lead == LeadingSpaces(s)
    IN IF lead = Len(s) THEN <<>>
       ELSE SubSeq(s, lead + 1, Len(s) - TrailingSpaces(s))

\* replace(/^["']|["']$/g, ''): one quote off the start, one off the end.
stripQuotes(s) ==
    LET t == IF s # <<>> /\ IsQuoteChar(s[1]) THEN Tail(s) ELSE s
    IN IF t # <<>> /\ IsQuoteChar(t[Len(t)]) THEN SubSeq(t, 1, Len(t) - 1) ELSE t

\* content.split('\n')
RECURSIVE splitLines(_)
splitLines(s) ==
    IF \A j \in 1..Len(s) : s[j] # NL THEN <<s>>
    ELSE LET i == CHOOSE j \in 1..Len(s) : s[j] = NL /\ \A h \in 1..(j - 1) : s[h] # NL
         IN <<SubSeq(s, 1, i - 1)>> \o splitLines(SubSeq(s, i + 1, Len(s)))

\* content.split(/\n\n+/): the parts between runs of two or more line breaks.
RECURSIVE splitParagraphs(_)
splitParagraphs(s) ==
    LET breaks == {j \in 1..(Len(s) - 1) : s[j] = NL /\ s[j + 1] = NL}
    IN IF breaks = {} THEN <<s>>
       ELSE LET i == CHOOSE j \in breaks : \A h \in breaks : j <= h
                rest == SubSeq(s, i, Len(s))
            IN <<SubSeq(s, 1, i - 1)>>
               \o splitParagraphs(SubSeq(rest, LeadingBreaks(rest) + 1, Len(rest)))

\* line.match(/^\d+\.\s*(.+)/): the capture group, if the line matches. When
\* only white space follows the period, the group is its last character.
NoMatch == [ok |-> FALSE, text |-> <<>>]
matchNumbered(line) ==
    LET d == LeadingDigits(line)
        rest == SubSeq(line, d + 2, Len(line))
    IN IF d = 0 \/ d >= Len(line) THEN NoMatch
       ELSE IF line[d + 1] # "." \/ rest = <<>> THEN NoMatch
       ELSE LET lead == LeadingSpaces(rest)
            IN IF lead < Len(rest)
               THEN [ok |-> TRUE, text |-> SubSeq(rest, lead + 1, Len(rest))]
               ELSE [ok |-> TRUE, text |-> SubSeq(rest, Len(rest), Len(rest))]

\* The loop of parseResponse over the non-blank lines.
RECURSIVE numberedSuggestions(_)
numberedSuggestions(lines) ==
    IF lines = <<>> THEN <<>>
    ELSE LET line == Head(lines)
             m == matchNumbered(line)
         IN (IF trim(line) # <<>> /\ m.ok
             THEN <<stripQuotes(trim(m.text))>> ELSE <<>>)
            \o numberedSuggestions(Tail(lines))

\* The second loop of parseResponse, over the paragraphs.
RECURSIVE paragraphSuggestions(_)
paragraphSuggestions(parts) ==
    IF parts = <<>> THEN <<>>
    ELSE LET cleaned == stripQuotes(trim(Head(parts)))
         IN (IF Len(cleaned) > 5 THEN <<cleaned>> ELSE <<>>)
            \o paragraphSuggestions(Tail(parts))

\* suggestions.slice(0, n)
slice(list, n) == SubSeq(list, 1, Min(Len(list), n))

\* A parser that adds the paragraphs to the numbered lines.
parseResponseMixed(content) ==
    slice(numberedSuggestions(splitLines(content))
          \o paragraphSuggestions(splitParagraphs(content)), SUGGESTIONS_COUNT)

\* ApiService.parseResponse(content)
parseResponse(content) ==
    LET numbered == numberedSuggestions(splitLines(content))
    IN slice(IF numbered = <<>> THEN paragraphSuggestions(splitParagraphs(content))
             ELSE numbered,
             SUGGESTIONS_COUNT)

\* The four tones, and what a request can carry as its tone: one of them, a
\* name that is not a tone, or nothing.
TONES == {"auto", "friendly", "humorous", "engaging"}
NoTone == "undefined"
RequestedTones == TONES \cup {"formal", NoTone}

\* generateReplies(context, tone = TONES.AUTO)
defaultedTone(tone) == IF tone = NoTone THEN "auto" ELSE tone

\* The table of getFallbackSuggestions.
fallbacks ==
    [t \in TONES |->
        CASE t = "auto" ->
               <<"Thanks for sharing this perspective!",
                 "This is really insightful, appreciate you posting.",
                 "Interesting point - I hadn't thought about it that way.">>
          [] t = "friendly" ->
               <<"Love this! Thanks for brightening my feed.",
                 "This made my day! Really appreciate you sharing.",
                 "So glad I came across this - thanks for posting!">>
          [] t = "humorous" ->
               <<"This is the content I signed up for!",
                 "Okay, this actually made me laugh out loud.",
                 "My scrolling has finally paid off!">>
          [] OTHER ->
               <<"This is fascinating - what inspired you to share this?",
                 "I'd love to hear more about your thoughts on this!",
                 "Really interesting perspective! Have you explored this further?">>]

\* A getFallbackSuggestions that ignores the tone.
getFallbackSuggestionsAuto(tone) == fallbacks["auto"]

\* ApiService.getFallbackSuggestions(context, tone)
getFallbackSuggestions(tone) ==
    IF tone \in DOMAIN fallbacks THEN fallbacks[tone] ELSE fallbacks["auto"]

\* What the promise of generateReplies settles with.
NoResult == [state |-> "pending", success |-> FALSE, error |-> "", suggestions |-> <<>>]
successResult(list) ==
    [state |-> "resolved", success |-> TRUE, error |-> "", suggestions |-> list]
\* The result for a missing API key, and the one of the catch block.
failureResult(tone, message) ==
    [state |-> "resolved", success |-> FALSE, error |-> message,
     suggestions |-> getFallbackSuggestions(tone)]

\* The lines the completion service writes its answers from.
AnswerLines ==
    {<<"1", ".", " ", "H", "i">>,
     <<"2", ".", " ", "\"", "Y", "o", "\"">>,
     <<"3", ".", " ", "'">>,
     <<"W", "e", "l", "l", " ", "s", "a", "i", "d">>,
     <<"O", "k">>,
     <<"4", ".">>,
     <<" ">>,
     <<>>}

\* lines joined by line breaks
RECURSIVE joinLines(_)
joinLines(lines) ==
    IF lines = <<>> THEN <<>>
    ELSE IF Len(lines) = 1 THEN lines[1]
    ELSE lines[1] \o <<NL>> \o joinLines(Tail(lines))

\* The texts the completion service can answer with.
Contents == {joinLines(ls) : ls \in SeqUpTo(AnswerLines, MaxLines)}

\* The error message of the result for a missing API key.
KEY_MISSING == "API key not configured. Please set your API key in the extension options."

\* error.message in the body of a response that is not OK: none (or a body
\* that is no JSON), the service's own wording, which can be any text.
ServiceMessages == {"", "Incorrect API key provided", KEY_MISSING}

\* No call of generateReplies is in progress.
ApiFree == [pc |-> "idle", tone |-> NoTone, key |-> "unread", fetch |-> "none",
            serviceMessage |-> "", body |-> "none", content |-> <<>>,
            result |-> NoResult]

\* generateReplies is called: up to `await storage.getApiKey()`.
ApiGenerateReplies(tone) ==
    /\ api.pc = "idle"
    /\ api' = [ApiFree EXCEPT !.pc = "key", !.tone = defaultedTone(tone)]

\* Reads of the store after which the request goes out without an API key.
ApiStorageReadSendsAnyway(key) ==
    /\ api.pc = "key"
    /\ api' = CASE key = "rejects" ->
                     [api EXCEPT !.pc = "done", !.key = key,
                         !.result = failureResult(api.tone, "storage")]
                [] OTHER -> [api EXCEPT !.pc = "fetch", !.key = key]

\* The reads of the store resolve or reject: the API key (present or not),
\* then the settings and the profile; up to `await fetch(...)`.
ApiStorageRead(key) ==
    /\ api.pc = "key"
    /\ api' = CASE key = "absent" ->
                     [api EXCEPT !.pc = "done", !.key = key,
                         !.result = failureResult(api.tone, KEY_MISSING)]
                [] key = "rejects" ->
                     [api EXCEPT !.pc = "done", !.key = key,
                         !.result = failureResult(api.tone, "storage")]
                [] OTHER -> [api EXCEPT !.pc = "fetch", !.key = key]

\* fetch settles: it rejects, or the response is not OK (an Error is thrown
\* with the service's message, or with "API error: <status>" when the body
\* holds none), or it is OK; up to `await response.json()`.
ApiFetch(outcome, message) ==
    /\ api.pc = "fetch"
    /\ api' = CASE outcome = "rejects" ->
                     [api EXCEPT !.pc = "done", !.fetch = outcome,
                         !.result = failureResult(api.tone, "Failed to fetch")]
                [] outcome = "notOk" ->
                     [api EXCEPT !.pc = "done", !.fetch = outcome,
                         !.serviceMessage = message,
                         !.result = failureResult(api.tone,
                                       IF message = "" THEN "API error" ELSE message)]
                [] OTHER -> [api EXCEPT !.pc = "body", !.fetch = outcome]

\* response.json() settles: it rejects, or the data has no message content, or
\* it has content, which is parsed; the rest of generateReplies.
ApiBody(body, content) ==
    /\ api.pc = "body"
    /\ body = "content" \/ content = <<>>
    /\ LET suggested == parseResponse(content) IN
       api' = CASE body = "invalid" ->
                     [api EXCEPT !.pc = "done", !.body = body,
                         !.result = failureResult(api.tone, "Unexpected token")]
                [] body = "noContent" \/ content = <<>> ->
                     [api EXCEPT !.pc = "done", !.body = body, !.content = content,
                         !.result = failureResult(api.tone, "Empty response from API")]
                [] suggested = <<>> ->
                     [api EXCEPT !.pc = "done", !.body = body, !.content = content,
                         !.result = failureResult(api.tone,
                                       "Failed to parse suggestions from response")]
                [] OTHER ->
                     [api EXCEPT !.pc = "done", !.body = body, !.content = content,
                         !.result = successResult(suggested)]

\* The caller has the result: handleGenerateReplies returns it.
ApiReturn ==
    /\ api.pc = "done"
    /\ api' = ApiFree

ApiIdle == api = ApiFree

----------------------------------------------------------------------------
\* Context extraction (extractContext of the adapters). A text is kept as its
\* length: <<n>> is a text of n characters, <<>> is null / no element found.

\* Longest text on the page.
MaxPageText == 501

\* The cut-offs of substring(0, ...) and the least lengths a candidate needs.
CONTEXT_LIMIT == 500
PARENT_LIMIT == 300
MIN_POST == 10
MIN_SPAN == 50
MIN_PARENT == 5

NullText == <<>>
Txt(n) == <<n>>
PageTexts ==
    {Txt(n) : n \in {0, MIN_PARENT + 1, MIN_POST + 1, MIN_SPAN + 1, PARENT_LIMIT + 1,
                     CONTEXT_LIMIT, MaxPageText}}
Names == {Txt(MIN_PARENT + 1)}
Found(S) == S \cup {NullText}

\* text.substring(0, limit)
substring(t, limit) == Txt(Min(t[1], limit))

\* The first text of the candidates (in selector order) longer than least:
\* `if (text && text.length > least) return text.substring(0, limit)`.
firstLongerThan(candidates, least, limit) ==
    LET fits == {j \in 1..Len(candidates) : candidates[j][1] > least}
    IN IF fits = {} THEN NullText
       ELSE substring(candidates[CHOOSE j \in fits : \A h \in fits : j <= h], limit)

\* What the selectors of each adapter find on the page.
Pages(pf) ==
    CASE pf = "youtube" ->
            [title : Found(PageTexts), description : Found(PageTexts),
             channel : Found(Names), comment : Found(PageTexts)]
      [] pf = "instagram" ->
            [article : BOOLEAN, caption : Found(PageTexts), author : Found(Names),
             comment : Found(PageTexts)]
      [] pf = "linkedin" ->
            [post : BOOLEAN, contents : SeqUpTo(PageTexts, 1), spans : SeqUpTo(PageTexts, 1),
             author : Found(Names), replyBox : BOOLEAN,
             comments : SeqUpTo(PageTexts, 1), throws : BOOLEAN]
      [] pf = "twitter" ->
            [tweet : BOOLEAN, texts : SeqUpTo(PageTexts, 2), author : Found(Names),
             throws : BOOLEAN]
      [] OTHER -> {[none |-> TRUE]}

\* YouTubePlatform.extractContext
extractContextYouTube(page) ==
    [platform |-> "youtube",
     postTitle |-> page.title,
     postDescription |-> IF page.description = NullText THEN NullText
                         ELSE substring(page.description, CONTEXT_LIMIT),
     postAuthor |-> page.channel,
     originalComment |-> page.comment]

\* InstagramPlatform.extractContext
extractContextInstagram(page) ==
    IF ~page.article
    THEN [platform |-> "instagram", postCaption |-> NullText, postAuthor |-> NullText,
          originalComment |-> NullText]
    ELSE [platform |-> "instagram",
          postCaption |-> IF page.caption = NullText THEN NullText
                          ELSE substring(page.caption, CONTEXT_LIMIT),
          postAuthor |-> page.author,
          originalComment |-> page.comment]

\* LinkedInPlatform.extractContext with extractPostContent and
\* extractParentComment; an error inside is caught and logged.
extractContextLinkedIn(page) ==
    LET byContent == firstLongerThan(page.contents, MIN_POST, CONTEXT_LIMIT)
    IN [platform |-> "linkedin",
        postContent |->
            IF page.throws \/ ~page.post THEN NullText
            ELSE IF byContent # NullText THEN byContent
            ELSE firstLongerThan(page.spans, MIN_SPAN, CONTEXT_LIMIT),
        postAuthor |-> IF page.throws \/ ~page.post THEN NullText ELSE page.author,
        originalComment |->
            IF page.throws \/ ~page.replyBox THEN NullText
            ELSE firstLongerThan(page.comments, MIN_PARENT, PARENT_LIMIT)]

\* TwitterPlatform.extractContext with extractTweetText: the tweet of the
\* dialog, the main tweet of the page or the tweet of a status URL.
extractContextTwitter(page) ==
    LET text == IF page.throws \/ ~page.tweet THEN NullText
                ELSE firstLongerThan(page.texts, 0, CONTEXT_LIMIT)
    IN [platform |-> "twitter",
        tweetContent |-> text,
        tweetAuthor |-> IF page.throws \/ ~page.tweet THEN NullText ELSE page.author,
        originalComment |-> text]

extractContext(pf, page) ==
    CASE pf = "youtube" -> extractContextYouTube(page)
      [] pf = "instagram" -> extractContextInstagram(page)
      [] pf = "linkedin" -> extractContextLinkedIn(page)
      [] pf = "twitter" -> extractContextTwitter(page)
      [] OTHER -> [platform |-> pf]

NoExtract == [platform |-> "none"]

\* A trigger click builds the context from the page as it is.
ExtractContext(page) == extracted' = extractContext(platform, page)

----------------------------------------------------------------------------
\* observeElements (dom.js) over a small tree. Mutation records are queued
\* while a task runs and delivered together in a microtask.

\* Elements besides the root, mutation records queued at once, and nodes a
\* script adds in all.
MaxNodes == 2
MaxRecords == 2
MaxAppends == 2

DomNodes == 1..MaxNodes
RootNode == MaxNodes + 1

\* The ancestors of n under parent function par (Null: no parent).
RECURSIVE Ancestors(_, _)
Ancestors(par, n) ==
    IF n = RootNode \/ par[n] = Null THEN {}
    ELSE {par[n]} \cup Ancestors(par, par[n])
InTree(par, n) == RootNode \in Ancestors(par, n)
Descendants(par, n) == {d \in DomNodes : n \in Ancestors(par, d)}

\* Mutations at n are reported: n is the root or below it, or in a subtree
\* removed since the last delivery (which a transient observer still follows).
Reported(o, n) ==
    o.active /\ (n = RootNode \/ InTree(o.parent, n)
                 \/ (({n} \cup Ancestors(o.parent, n)) \cap o.transient # {}))

\* The matching elements among n and its descendants:
\* `node.matches(selector)` and `node.querySelectorAll(selector)`.
MatchesIn(o, n) == {d \in {n} \cup Descendants(o.parent, n) : o.matches[d]}

\* The observer's callback on one added node: the node itself if it matches,
\* then every matching descendant it has now.
addedNode(o, n) ==
    [o EXCEPT !.calls =
        [d \in DomNodes |->
            @[d] + (IF d = n /\ o.matches[n] THEN 1 ELSE 0)
                 + (IF d \in Descendants(o.parent, n) /\ o.matches[d] THEN 1 ELSE 0)]]

\* The observer's callback over the records of one delivery.
RECURSIVE mutationCallback(_, _)
mutationCallback(o, recs) ==
    IF recs = <<>> THEN o
    ELSE mutationCallback(addedNode(o, Head(recs)), Tail(recs))

ObserverIdle ==
    [active |-> FALSE, parent |-> [n \in DomNodes |-> Null],
     matches |-> [n \in DomNodes |-> FALSE], records |-> <<>>, transient |-> {},
     calls |-> [n \in DomNodes |-> 0], adds |-> [n \in DomNodes |-> 0], appends |-> 0]

\* observeElements(selector, callback, root): the callback for every current
\* match, then observer.observe(root, {childList, subtree}).
ObserveElements ==
    /\ ~observer.active
    /\ LET now == [n \in DomNodes |->
                      IF observer.matches[n] /\ InTree(observer.parent, n) THEN 1 ELSE 0]
       IN observer' = [observer EXCEPT !.active = TRUE, !.calls = now, !.adds = now]

\* A script removes n from its parent.
RemoveChild(n) ==
    /\ observer.parent[n] # Null
    /\ observer' = [observer EXCEPT
          !.parent[n] = Null,
          !.transient = IF Reported(observer, n) THEN @ \cup {n} ELSE @]

\* A script appends n (detached, or attached elsewhere: a move) to p.
AppendChild(n, p) ==
    /\ p # n /\ p \notin Descendants(observer.parent, n)
    /\ observer.parent[n] # p
    /\ observer.appends < MaxAppends
    /\ LET removed == IF observer.parent[n] = Null THEN observer
                      ELSE [observer EXCEPT
                               !.transient = IF Reported(observer, n) THEN @ \cup {n}
                                             ELSE @]
           moved == [removed EXCEPT !.parent[n] = p, !.appends = @ + 1]
           arrived == IF moved.active /\ InTree(moved.parent, n)
                      THEN MatchesIn(moved, n) ELSE {}
       IN /\ Reported(removed, p) => Len(observer.records) < MaxRecords
          /\ observer' = [moved EXCEPT
                !.records = IF Reported(removed, p) THEN Append(@, n) ELSE @,
                !.adds = [d \in DomNodes |-> IF d \in arrived THEN @[d] + 1 ELSE @[d]]]

\* The task ends: the queued records are delivered to the observer's callback.
DeliverMutations ==
    /\ observer.active
    /\ observer.records # <<>>
    /\ observer' = [mutationCallback(observer, observer.records) EXCEPT
                       !.records = <<>>, !.transient = {}]

----------------------------------------------------------------------------
\* waitForElement (dom.js) over a small tree.

\* The matching elements below the root: what parent.querySelector can return.
MatchesInTree(w) == {n \in DomNodes : w.matches[n] /\ InTree(w.parent, n)}

\* resolve(el) and reject(error) of the promise: a settled promise stays as it is.
resolve(w, el) == IF w.state = "pending" THEN [w EXCEPT !.state = "resolved", !.value = el]
                  ELSE w
reject(w) == IF w.state = "pending" THEN [w EXCEPT !.state = "rejected"] ELSE w

\* obs.disconnect(): no further records, the queued ones are dropped.
disconnect(w) == [w EXCEPT !.active = FALSE, !.records = <<>>, !.transient = {}]

\* An observer callback that resolves without disconnecting.
waitCallbackStaysConnected(w, el) == resolve(w, el)

\* The observer's callback once parent.querySelector(selector) has found el.
waitCallback(w, el) == resolve(disconnect(w), el)

WaiterIdle ==
    [state |-> "idle", value |-> Null, active |-> FALSE, timer |-> FALSE,
     fired |-> FALSE, parent |-> [n \in DomNodes |-> Null], matches |-> [n \in DomNodes |-> FALSE],
     records |-> <<>>, transient |-> {}, appends |-> 0]

\* waitForElement(selector, timeout, parent): resolved at once with a current
\* match; otherwise the observer is connected and the timer started.
WaitForElement(el) ==
    /\ waiter.state = "idle"
    /\ IF MatchesInTree(waiter) # {}
       THEN /\ el \in MatchesInTree(waiter)
            /\ waiter' = resolve([waiter EXCEPT !.state = "pending"], el)
       ELSE /\ el = Null
            /\ waiter' = [waiter EXCEPT !.state = "pending", !.active = TRUE,
                                        !.timer = TRUE]

\* A script removes n from its parent.
WaitRemoveChild(n) ==
    /\ waiter.parent[n] # Null
    /\ waiter' = [waiter EXCEPT
          !.parent[n] = Null,
          !.records = IF Reported(waiter, n) /\ Len(@) < MaxRecords
                      THEN Append(@, Null) ELSE @,
          !.transient = IF Reported(waiter, n) THEN @ \cup {n} ELSE @]

\* A script appends n (detached, or attached elsewhere) to p.
WaitAppendChild(n, p) ==
    /\ p # n /\ p \notin Descendants(waiter.parent, n)
    /\ waiter.parent[n] # p
    /\ waiter.appends < MaxAppends
    /\ LET removed == IF waiter.parent[n] = Null THEN waiter
                      ELSE [waiter EXCEPT
                               !.transient = IF Reported(waiter, n) THEN @ \cup {n}
                                             ELSE @]
       IN /\ Reported(removed, p) => Len(waiter.records) < MaxRecords
          /\ waiter' = [removed EXCEPT
                !.parent[n] = p, !.appends = @ + 1,
                !.records = IF Reported(removed, p) THEN Append(@, n) ELSE @]

\* The task ends: the observer's callback runs on the queued records.
WaitDeliver(el) ==
    /\ waiter.active
    /\ waiter.records # <<>>
    /\ IF MatchesInTree(waiter) # {}
       THEN /\ el \in MatchesInTree(waiter)
            /\ waiter' = waitCallback(waiter, el)
       ELSE /\ el = Null
            /\ waiter' = [waiter EXCEPT !.records = <<>>, !.transient = {}]

\* The timer fires, after the microtasks of the tasks before it:
\* observer.disconnect(), then reject(new Error('Timeout ...')).
WaitTimeout ==
    /\ waiter.timer
    /\ waiter.records = <<>>
    /\ waiter' = reject(disconnect([waiter EXCEPT !.timer = FALSE, !.fired = TRUE]))

----------------------------------------------------------------------------
\* calculatePopupPosition (dom.js). Lengths are in half pixels, so that the
\* halving of the centred position is exact for whole-pixel inputs.

\* Grid positions of the trigger along each axis.
PosSteps == 3

VIEWPORT_MARGIN == 16
POPUP_OFFSET == 8
POPUP_WIDTH == 380
POPUP_HEIGHT == 400

Px(n) == 2 * n

\* window.innerWidth / innerHeight
Viewports == {[width |-> Px(1000), height |-> Px(800)],
              [width |-> Px(420), height |-> Px(440)]}

\* The popup sizes tried in viewport v: the one show() passes, the largest
\* that fits inside the margins, a small one and one that does not fit.
PopupSizes(v) ==
    {[width |-> Px(POPUP_WIDTH), height |-> Px(POPUP_HEIGHT)],
     [width |-> v.width - 2 * Px(VIEWPORT_MARGIN),
      height |-> v.height - 2 * Px(VIEWPORT_MARGIN)],
     [width |-> Px(200), height |-> Px(100)],
     [width |-> v.width, height |-> v.height]}

\* trigger.getBoundingClientRect() for triggers of 32x32, 32x8 and 32x7 pixels
\* on a grid of places inside viewport v.
TriggerRects(v) ==
    {[left |-> x, top |-> y, right |-> x + Px(32), bottom |-> y + h] :
        x \in {(k * (v.width - Px(32))) \div PosSteps : k \in 0..PosSteps},
        y \in UNION {{(k * (v.height - hh)) \div PosSteps : k \in 0..PosSteps}
                       : hh \in {Px(32), Px(8), Px(7)}},
        h \in {Px(32), Px(8), Px(7)}}

\* A placement that is never flipped above the trigger or centred.
calculatePopupPositionBelow(rect, popupSize, v) ==
    [top |-> rect.bottom + Px(POPUP_OFFSET),
     left |-> Max(Px(VIEWPORT_MARGIN),
                  Min(rect.left, v.width - popupSize.width - Px(VIEWPORT_MARGIN)))]

\* calculatePopupPosition(trigger, popupSize) in a window of size v
calculatePopupPosition(rect, popupSize, v) ==
    LET margin == Px(VIEWPORT_MARGIN)
        below == rect.bottom + Px(POPUP_OFFSET)
        right == IF rect.left + popupSize.width > v.width - margin
                 THEN v.width - popupSize.width - margin ELSE rect.left
        topAbove == rect.top - popupSize.height - Px(POPUP_OFFSET)
    IN [top |-> IF below + popupSize.height > v.height - margin
                THEN (IF topAbove > margin THEN topAbove
                      ELSE Max(margin, (v.height - popupSize.height) \div 2))
                ELSE below,
        left |-> IF right < margin THEN margin ELSE right]

NoPosition == [top |-> -1, left |-> -1]
PositionIdle ==
    [view |-> [width |-> 0, height |-> 0], popupSize |-> [width |-> 0, height |-> 0],
     rect |-> [left |-> 0, top |-> 0, right |-> 0, bottom |-> 0], result |-> NoPosition]

\* The call with the inputs at hand.
CalculatePopupPosition ==
    /\ position.result = NoPosition
    /\ position # PositionIdle
    /\ position' = [position EXCEPT
          !.result = calculatePopupPosition(position.rect, position.popupSize,
                                            position.view)]

----------------------------------------------------------------------------
\* Dragging the popup by its header (handleDragStart, handleDrag,
\* handleDragEnd). Lengths are in half pixels, as above.

\* Grid positions of the pointer along each axis.
DragSteps == 2

\* The popup's drag fields after the constructor, the window and the pointer:
\* position = {top: 0, left: 0}, isDragging = false, dragOffset = {x: 0, y: 0};
\* listening says that handleDrag and handleDragEnd are registered on document.
DragIdle ==
    [view |-> [width |-> 0, height |-> 0], size |-> [width |-> 0, height |-> 0],
     position |-> [top |-> 0, left |-> 0], isDragging |-> FALSE,
     dragOffset |-> [x |-> 0, y |-> 0], pointer |-> [x |-> 0, y |-> 0],
     listening |-> FALSE]

\* element.offsetWidth / offsetHeight: the size show() assumes and a smaller one.
DragSizes ==
    {[width |-> Px(POPUP_WIDTH), height |-> Px(POPUP_HEIGHT)],
     [width |-> Px(200), height |-> Px(100)]}

\* Where the pointer can be moved to in window v, its edges included.
PointerPlaces(v) ==
    {[x |-> (i * v.width) \div DragSteps, y |-> (j * v.height) \div DragSteps] :
        i \in 0..DragSteps, j \in 0..DragSteps}

\* Where on the header the button is pressed, relative to the popup's corner.
PressOffsets == {[x |-> Px(20), y |-> Px(10)], [x |-> Px(180), y |-> Px(30)]}

\* The trigger controls' rectangles: in the top left and the bottom right
\* corner of window v.
DragTriggerRects(v) ==
    {[left |-> 0, top |-> 0, right |-> Px(32), bottom |-> Px(32)],
     [left |-> v.width - Px(32), top |-> v.height - Px(32),
      right |-> v.width, bottom |-> v.height]}

\* handleDragStart(e) for a press on the header outside the close button.
handleDragStart(d, e) ==
    [d EXCEPT !.isDragging = TRUE,
              !.dragOffset = [x |-> e.x - d.position.left, y |-> e.y - d.position.top],
              !.pointer = e, !.listening = TRUE]

\* The position handleDrag assigns: clamped to the margins.
dragPosition(d, e) ==
    LET maxLeft == d.view.width - d.size.width - Px(VIEWPORT_MARGIN)
        maxTop == d.view.height - d.size.height - Px(VIEWPORT_MARGIN)
    IN [left |-> Max(Px(VIEWPORT_MARGIN), Min(e.x - d.dragOffset.x, maxLeft)),
        top |-> Max(Px(VIEWPORT_MARGIN), Min(e.y - d.dragOffset.y, maxTop))]

\* handleDrag(e); hasElement is popup.element
handleDrag(d, e, hasElement) ==
    IF ~d.isDragging \/ ~hasElement THEN [d EXCEPT !.pointer = e]
    ELSE [d EXCEPT !.position = dragPosition(d, e), !.pointer = e]

\* handleDragEnd()
handleDragEnd(d) == [d EXCEPT !.isDragging = FALSE, !.listening = FALSE]

\* The pointer is over the popup's box.
PointerOverPopup(d) ==
    /\ d.position.left <= d.pointer.x
    /\ d.pointer.x <= d.position.left + d.size.width
    /\ d.position.top <= d.pointer.y
    /\ d.pointer.y <= d.position.top + d.size.height

----------------------------------------------------------------------------
\* History of the popup's showings, kept beside the program's state.

\* Showings of the popup that are counted.
MaxSessions == 2

\* No show() yet, no insertion chosen.
SessionIdle == [opened |-> 0, chosen |-> [r \in 1..MaxRuns |-> 0]]

----------------------------------------------------------------------------
\* The statistics kept by the service worker (StorageManager.getStats,
\* saveStats, incrementReplyGenerated, incrementReplyInserted, resetStats,
\* called from handleGenerateReplies and handleUpdateStats). Requests of
\* chrome.storage.local take effect in the order they are issued; their
\* callbacks come later, one task each.

\* Calls that can be in progress at once, and calls made in all.
MaxOps == 2
MaxCalls == 3

\* The platforms and tones the calls are made for.
StatPlatforms == {"youtube", "instagram"}
StatTones == {"auto", "friendly"}

ZeroCounts(S) == [x \in S |-> 0]

\* Nothing is stored under the statistics key.
NoRecord ==
    [present |-> FALSE, totalRepliesGenerated |-> 0,
     repliesByPlatform |-> ZeroCounts(StatPlatforms),
     repliesByTone |-> ZeroCounts(StatTones), repliesInserted |-> 0]

\* { ...DEFAULT_STATS }: a copy of the top-level counters whose
\* repliesByPlatform and repliesByTone are DEFAULT_STATS' own objects, here
\* with the contents they have in the worker's memory (st.byPlatform, st.byTone).
defaultStatsCopy(st) ==
    [present |-> TRUE, totalRepliesGenerated |-> 0,
     repliesByPlatform |-> st.byPlatform, repliesByTone |-> st.byTone,
     repliesInserted |-> 0]

IdleOp == [pc |-> "idle", kind |-> "none", platform |-> "none", tone |-> "none",
           read |-> NoRecord]

\* Empty storage, DEFAULT_STATS as the module defines it, no call in progress;
\* generated, inserted and resets count the calls that have been handled.
StatsIdle ==
    [stored |-> NoRecord, writer |-> "none",
     byPlatform |-> ZeroCounts(StatPlatforms), byTone |-> ZeroCounts(StatTones),
     ops |-> [o \in 1..MaxOps |-> IdleOp],
     generated |-> 0, inserted |-> 0, resets |-> 0, calls |-> 0]

\* incrementReplyGenerated(platform, tone) from the callback of getStats on:
\* with a stored record the counters of its copy go up; with none, the copy of
\* DEFAULT_STATS is used, whose nested objects are the ones of DEFAULT_STATS
\* itself. saveStats is called with the result.
incrementGenerated(st, o) ==
    LET op == st.ops[o]
        rec == IF op.read.present THEN op.read ELSE defaultStatsCopy(st)
        new == [rec EXCEPT !.totalRepliesGenerated = @ + 1,
                           !.repliesByPlatform[op.platform] = @ + 1,
                           !.repliesByTone[op.tone] = @ + 1]
    IN [st EXCEPT !.stored = new, !.writer = "generated",
                  !.byPlatform = IF op.read.present THEN @ ELSE new.repliesByPlatform,
                  !.byTone = IF op.read.present THEN @ ELSE new.repliesByTone,
                  !.ops[o].pc = "saving"]

\* incrementReplyInserted() from the callback of getStats on.
incrementInserted(st, o) ==
    LET op == st.ops[o]
        rec == IF op.read.present THEN op.read ELSE defaultStatsCopy(st)
        new == [rec EXCEPT !.repliesInserted = @ + 1]
    IN [st EXCEPT !.stored = new, !.writer = "inserted", !.ops[o].pc = "saving"]

\* resetStats() up to its await: saveStats({ ...DEFAULT_STATS }).
resetStats(st, o) ==
    [st EXCEPT !.stored = defaultStatsCopy(st), !.writer = "reset",
               !.ops[o] = [IdleOp EXCEPT !.pc = "saving", !.kind = "reset"]]

\* A call that starts with getStats(): chrome.storage.local.get is issued and
\* will answer with what is stored now.
startStatsCall(st, o, kind, pf, tone) ==
    [st EXCEPT !.ops[o] = [pc |-> "reading", kind |-> kind, platform |-> pf,
                           tone |-> tone, read |-> st.stored],
               !.calls = @ + 1]

\* The callback of saveStats: the call returns and has been handled.
finishStatsCall(st, o) ==
    [st EXCEPT !.ops[o] = IdleOp,
               !.generated = IF st.ops[o].kind = "generated" THEN @ + 1 ELSE @,
               !.inserted = IF st.ops[o].kind = "inserted" THEN @ + 1 ELSE @,
               !.resets = IF st.ops[o].kind = "reset" THEN @ + 1 ELSE @]

\* handleGenerateReplies after a successful generation for a context with a
\* platform: incrementReplyGenerated(platform, tone) begins.
StatsGenerated(o, pf, tone) ==
    /\ statsStore.ops[o].pc = "idle"
    /\ statsStore.calls < MaxCalls
    /\ statsStore' = startStatsCall(statsStore, o, "generated", pf, tone)

\* handleUpdateStats({action: 'incrementInserted'}): incrementReplyInserted()
\* begins.
StatsInserted(o) ==
    /\ statsStore.ops[o].pc = "idle"
    /\ statsStore.calls < MaxCalls
    /\ statsStore' = startStatsCall(statsStore, o, "inserted", "none", "none")

\* StorageManager.resetStats() is called.
StatsReset(o) ==
    /\ statsStore.ops[o].pc = "idle"
    /\ statsStore.calls < MaxCalls
    /\ statsStore' = [resetStats(statsStore, o) EXCEPT !.calls = @ + 1]

\* getStats() resolves in call o.
StatsRead(o) ==
    /\ statsStore.ops[o].pc = "reading"
    /\ statsStore' = IF statsStore.ops[o].kind = "generated"
                     THEN incrementGenerated(statsStore, o)
                     ELSE incrementInserted(statsStore, o)

\* saveStats() resolves in call o.
StatsSaved(o) ==
    /\ statsStore.ops[o].pc = "saving"
    /\ statsStore' = finishStatsCall(statsStore, o)

\* Nothing is extracted, observed, waited for, placed or dragged.
UtilIdle ==
    /\ extracted = NoExtract /\ observer = ObserverIdle /\ waiter = WaiterIdle
    /\ position = PositionIdle /\ drag = DragIdle
    /\ session = SessionIdle /\ statsStore = StatsIdle

----------------------------------------------------------------------------
\* The insertion engine on its own, driven one call at a time.

NoSleep == [run |-> Null, ms |-> 0, lo |-> 0, hi |-> 0]

EngineInit ==
    /\ elKind = ElementKinds
    /\ \E v \in InitValues : value = [e \in Elements |-> v]
    /\ selection \in {NoSel} \cup
          {[el |-> e, off |-> Len(value[e])] : e \in {x \in Elements : elKind[x] = "editable"}}
    /\ recorded = Elements
    /\ events = <<>>
    /\ runs = [r \in RunIds |-> FreeRun]
    /\ sleepReq = NoSleep

TypingInit == EngineInit /\ AdapterIdle /\ PopupIdle /\ ApiIdle /\ UtilIdle

\* A call of insertText while no other call is in progress.
TypingCall ==
    /\ \A r \in RunIds : runs[r].pc = "free"
    /\ \E el \in Elements \cup {Null}, text \in Texts,
          optSimulate \in SimulateOpts, optSpeed \in SpeedOpts,
          throwAt \in ThrowPoints, k \in Rands :
          InsertText(1, el, text, optSimulate, optSpeed, throwAt, k)
    /\ UNCHANGED <<adapterVars, popupVars, apiVars, utilVars>>

TypingTimer ==
    /\ \E r \in RunIds, throwAt \in ThrowPoints, k \in Rands : SleepDone(r, throwAt, k)
    /\ UNCHANGED <<adapterVars, popupVars, apiVars, utilVars>>

TypingNext == TypingCall \/ TypingTimer

SpecTyping == TypingInit /\ [][TypingNext]_vars

----------------------------------------------------------------------------
\* The adapter on a page whose surfaces come and go.

\* Nothing is being typed and no element is watched.
EngineIdle ==
    /\ elKind = ElementKinds
    /\ value = [el \in Elements |-> <<>>]
    /\ selection = NoSel
    /\ recorded = {}
    /\ events = <<>>
    /\ runs = [r \in RunIds |-> FreeRun]
    /\ sleepReq = NoSleep

AdapterSpecInit == AdapterInit /\ EngineIdle /\ PopupIdle /\ ApiIdle /\ UtilIdle

AdapterStart == PlatformInit /\ UNCHANGED <<engineVars, popupVars, apiVars, utilVars>>
AdapterMount ==
    /\ \E s \in Surfaces, lay \in Layouts(platform), vis \in BOOLEAN : Mount(s, lay, vis)
    /\ UNCHANGED <<engineVars, popupVars, apiVars, utilVars>>
AdapterUnmount == (\E s \in Surfaces : Unmount(s)) /\ UNCHANGED <<engineVars, popupVars, apiVars, utilVars>>
AdapterSetVisible ==
    /\ \E s \in Surfaces, vis \in BOOLEAN : SetVisible(s, vis)
    /\ UNCHANGED <<engineVars, popupVars, apiVars, utilVars>>
AdapterProcessTimer == (\E k \in Keys : ProcessTimer(k)) /\ UNCHANGED <<engineVars, popupVars, apiVars, utilVars>>
AdapterScanTimer == ScanTimer /\ UNCHANGED <<engineVars, popupVars, apiVars, utilVars>>
AdapterDialog == DialogAppears /\ UNCHANGED <<engineVars, popupVars, apiVars, utilVars>>
AdapterProcessInput == (\E s \in Surfaces : ProcessInput(s)) /\ UNCHANGED <<engineVars, popupVars, apiVars, utilVars>>
AdapterNavigate == HandleNavigation /\ UNCHANGED <<engineVars, apiVars, utilVars>>
AdapterRouteTimer == OnRouteChange /\ UNCHANGED <<engineVars, popupVars, apiVars, utilVars>>

AdapterNext ==
    \/ AdapterStart
    \/ AdapterMount
    \/ AdapterUnmount
    \/ AdapterSetVisible
    \/ AdapterProcessTimer
    \/ AdapterScanTimer
    \/ AdapterDialog
    \/ AdapterProcessInput
    \/ AdapterNavigate
    \/ AdapterRouteTimer

SpecAdapter == AdapterSpecInit /\ [][AdapterNext]_vars

----------------------------------------------------------------------------
\* The controller on a page whose comment surfaces carry their trigger controls.

\* The layout in which the adapter places a control on every surface.
ReadyLayout(pf) == IF pf = "instagram" THEN "formTextarea" ELSE "full"

\* The adapter after init() on a page of visible, fully laid out surfaces, its
\* start-up timers fired.
AdapterReady ==
    /\ platform \in {"youtube", "instagram"}
    /\ started = TRUE
    /\ mounted = [s \in Surfaces |-> TRUE]
    /\ visible = [s \in Surfaces |-> TRUE]
    /\ layout = [s \in Surfaces |-> ReadyLayout(platform)]
    /\ LET page == [platform |-> platform, mounted |-> mounted, visible |-> visible,
                    layout |-> layout, buttons |-> [k \in Keys |-> 0],
                    processed |-> {}]
           ready == scanForInputs(observeAll(page, NSurf))
       IN /\ buttons = ready.buttons
          /\ processedInputs = ready.processed
    /\ pendingProc = {}
    /\ pendingScans = 0
    /\ routeTimers = 0

PopupSpecInit == PopupInit /\ AdapterReady /\ EngineIdle /\ ApiIdle /\ UtilIdle

\* Where a step of the insertion engine can raise inside the controller's runs.
PopupThrowPoints == {"none", "write"}

PopupClick ==
    /\ \E b \in TriggerButtons, post \in Posts : HandleButtonClick(b, post)
    /\ UNCHANGED <<engineVars, adapterVars, apiVars, utilVars>>
PopupRespond ==
    /\ \E req \in BagToSet(requests), outcome \in Outcomes : Respond(req, outcome)
    /\ UNCHANGED <<engineVars, adapterVars, apiVars, utilVars>>
PopupTone == (\E tone \in Tones : ClickTone(tone)) /\ UNCHANGED <<engineVars, adapterVars, apiVars, utilVars>>
PopupRegenerate == ClickRegenerate /\ UNCHANGED <<engineVars, adapterVars, apiVars, utilVars>>
PopupRetry == ClickRetry /\ UNCHANGED <<engineVars, adapterVars, apiVars, utilVars>>
PopupClose == ClickClose /\ UNCHANGED <<engineVars, adapterVars, apiVars, utilVars>>
PopupEscape == KeyEscape /\ UNCHANGED <<engineVars, adapterVars, apiVars, utilVars>>
PopupOutside == ClickOutside /\ UNCHANGED <<engineVars, adapterVars, apiVars, utilVars>>
PopupHideTimer == HideTimer /\ UNCHANGED <<engineVars, adapterVars, apiVars, utilVars>>
PopupListenTimer == ListenTimer /\ UNCHANGED <<engineVars, adapterVars, apiVars, utilVars>>
PopupInsert ==
    /\ \E i \in 1..SUGGESTIONS_COUNT, r \in RunIds, throwAt \in PopupThrowPoints :
          ClickSuggestion(i, r, throwAt)
    /\ UNCHANGED <<adapterVars, apiVars, utilVars>>
PopupTyping ==
    /\ \E r \in RunIds, throwAt \in PopupThrowPoints : SleepDone(r, throwAt, 0)
    /\ UNCHANGED <<adapterVars, popupVars, apiVars, utilVars>>
PopupInsertResolved == (\E r \in RunIds : InsertResolved(r)) /\ UNCHANGED <<adapterVars, apiVars, utilVars>>
PopupStatsResolved == (\E r \in RunIds : StatsResolved(r)) /\ UNCHANGED <<adapterVars, apiVars, utilVars>>

\* The popup's session: trigger clicks, tone changes, regenerate and retry,
\* close actions, timers and responses.
PopupNext ==
    \/ PopupClick
    \/ PopupRespond
    \/ PopupTone
    \/ PopupRegenerate
    \/ PopupRetry
    \/ PopupClose
    \/ PopupEscape
    \/ PopupOutside
    \/ PopupHideTimer
    \/ PopupListenTimer

SpecPopup == PopupSpecInit /\ [][PopupNext]_vars

\* Choosing suggestions: trigger clicks, responses, suggestion clicks and the
\* insertions they start, the close button and the hide timer.
InsertNext ==
    \/ PopupClick
    \/ PopupRespond
    \/ PopupClose
    \/ PopupHideTimer
    \/ PopupInsert
    \/ PopupTyping
    \/ PopupInsertResolved
    \/ PopupStatsResolved

SpecInsert == PopupSpecInit /\ [][InsertNext]_vars

\* Trigger clicks on a page that shows one post.
LifecycleClick ==
    /\ \E b \in TriggerButtons : HandleButtonClick(b, "p1")
    /\ UNCHANGED <<engineVars, adapterVars, apiVars, utilVars>>

\* Choosing suggestions one at a time: the user waits for an insertion to be
\* dealt with before clicking a card again; responses include the one with an
\* empty suggestion.
PopupRespondBlank ==
    /\ \E req \in BagToSet(requests) : Respond(req, BlankOutcome)
    /\ UNCHANGED <<engineVars, adapterVars, apiVars, utilVars>>
ChooseInsert ==
    /\ \A q \in RunIds : awaiting[q] = "none"
    /\ PopupInsert

ChooseNext ==
    \/ LifecycleClick
    \/ PopupRespond
    \/ PopupRespondBlank
    \/ ChooseInsert
    \/ PopupTyping
    \/ PopupInsertResolved
    \/ PopupStatsResolved
    \/ PopupHideTimer

\* An Instagram page (typing is simulated when the setting asks for it), the
\* default tone left at "auto".
ChooseInit ==
    /\ PopupSpecInit
    /\ platform = "instagram"
    /\ settings.defaultTone = "auto"

SpecChoose == ChooseInit /\ [][ChooseNext]_vars

\* The completion client on its own, one call after the other.
ApiSpecInit == ApiIdle /\ EngineIdle /\ AdapterIdle /\ PopupIdle /\ UtilIdle

ApiCall ==
    /\ \E tone \in RequestedTones : ApiGenerateReplies(tone)
    /\ UNCHANGED <<engineVars, adapterVars, popupVars, utilVars>>
ApiStorage ==
    /\ \E key \in {"present", "absent", "rejects"} : ApiStorageRead(key)
    /\ UNCHANGED <<engineVars, adapterVars, popupVars, utilVars>>
ApiFetched ==
    /\ \E outcome \in {"ok", "notOk", "rejects"}, message \in ServiceMessages :
          /\ outcome = "notOk" \/ message = ""
          /\ ApiFetch(outcome, message)
    /\ UNCHANGED <<engineVars, adapterVars, popupVars, utilVars>>
ApiAnswered ==
    /\ api.pc = "body"
    /\ \E body \in {"content", "noContent", "invalid"}, content \in Contents :
          ApiBody(body, content)
    /\ UNCHANGED <<engineVars, adapterVars, popupVars, utilVars>>
ApiReturned == ApiReturn /\ UNCHANGED <<engineVars, adapterVars, popupVars, utilVars>>

ApiNext == ApiCall \/ ApiStorage \/ ApiFetched \/ ApiAnswered \/ ApiReturned

SpecApi == ApiSpecInit /\ [][ApiNext]_vars

\* Tone changes and regenerations on a YouTube page: trigger clicks, responses,
\* tone buttons, the regenerate button, the close button and the hide timer.
RegenerateInit == PopupSpecInit /\ platform = "youtube"

RegenerateNext ==
    \/ PopupClick
    \/ PopupRespond
    \/ PopupTone
    \/ PopupRegenerate
    \/ PopupClose
    \/ PopupHideTimer

SpecRegenerate == RegenerateInit /\ [][RegenerateNext]_vars

\* The popup's node over trigger clicks, close actions, navigation and timers,
\* on a YouTube page with the default settings.
LifecycleInit ==
    /\ PopupSpecInit
    /\ platform = "youtube"
    /\ settings = [defaultTone |-> "auto", typingSimulation |-> TRUE,
                   typingSpeed |-> DefaultSpeed]

PopupNavigate == HandleNavigation /\ UNCHANGED <<engineVars, apiVars, utilVars>>
PopupRouteTimer == OnRouteChange /\ UNCHANGED <<engineVars, popupVars, apiVars, utilVars>>

LifecycleNext ==
    \/ LifecycleClick
    \/ PopupRespond
    \/ PopupClose
    \/ PopupEscape
    \/ PopupOutside
    \/ PopupHideTimer
    \/ PopupListenTimer
    \/ PopupNavigate
    \/ PopupRouteTimer

SpecLifecycle == LifecycleInit /\ [][LifecycleNext]_vars

\* Insertions that go on while the popup is being closed: on an Instagram page
\* with simulated typing switched on and an event recorder on every element, the
\* user chooses suggestions one at a time and meanwhile presses Escape, clicks
\* outside, clicks the trigger control again or navigates.
EngineWatched ==
    /\ elKind = ElementKinds
    /\ value = [el \in Elements |-> <<>>]
    /\ selection = NoSel
    /\ recorded = Elements
    /\ events = <<>>
    /\ runs = [r \in RunIds |-> FreeRun]
    /\ sleepReq = NoSleep

InterruptInit ==
    /\ PopupInit /\ AdapterReady /\ EngineWatched /\ ApiIdle /\ UtilIdle
    /\ platform = "instagram"
    /\ settings = [defaultTone |-> "auto", typingSimulation |-> TRUE,
                   typingSpeed |-> DefaultSpeed]

\* `await insertText(...)` resumes handleInsert in a microtask, before any
\* further event or timer is handled.
NoMicrotask == \A r \in RunIds : ~(awaiting[r] = "insert" /\ runs[r].pc = "settled")

InterruptRespond ==
    /\ \E req \in BagToSet(requests) :
          Respond(req, [kind |-> "success", n |-> SUGGESTIONS_COUNT])
    /\ UNCHANGED <<engineVars, adapterVars, apiVars, utilVars>>

\* Clicks on the trigger control of the first comment form.
InterruptClick ==
    /\ HandleButtonClick([key |-> <<"form", 1>>, n |-> 1], "p1")
    /\ UNCHANGED <<engineVars, adapterVars, apiVars, utilVars>>

\* The recorder follows the first insertion into the page.
InterruptInsert == events = <<>> /\ ChooseInsert

InterruptNext ==
    \/ PopupInsertResolved
    \/ NoMicrotask /\ InterruptClick
    \/ NoMicrotask /\ InterruptRespond
    \/ NoMicrotask /\ InterruptInsert
    \/ NoMicrotask /\ PopupTyping
    \/ NoMicrotask /\ PopupStatsResolved
    \/ NoMicrotask /\ PopupEscape
    \/ NoMicrotask /\ PopupOutside
    \/ NoMicrotask /\ PopupHideTimer
    \/ NoMicrotask /\ PopupListenTimer
    \/ NoMicrotask /\ PopupNavigate
    \/ NoMicrotask /\ PopupRouteTimer

SpecInterrupt == InterruptInit /\ [][InterruptNext]_vars

\* Insertions that outlast their popup, with the showings counted: as in the
\* interrupted insertions above, the trigger control opens the popup again
\* while an earlier choice is still being typed.
SessionClick ==
    /\ HandleButtonClick([key |-> <<"form", 1>>, n |-> 1], "p1")
    /\ IF isOpen(Popup) /\ currentTriggerButton = [key |-> <<"form", 1>>, n |-> 1]
       THEN UNCHANGED session
       ELSE /\ session.opened < MaxSessions
            /\ session' = [session EXCEPT !.opened = @ + 1]
    /\ UNCHANGED <<engineVars, adapterVars, apiVars, extracted, observer, waiter,
                   position, drag, statsStore>>

SessionInsert ==
    /\ events = <<>>
    /\ \A q \in RunIds : awaiting[q] = "none"
    /\ \E i \in 1..SUGGESTIONS_COUNT, r \in RunIds, throwAt \in PopupThrowPoints :
          /\ ClickSuggestion(i, r, throwAt)
          /\ session' = [session EXCEPT !.chosen[r] = session.opened]
    /\ UNCHANGED <<adapterVars, apiVars, extracted, observer, waiter, position, drag,
                   statsStore>>

SessionNext ==
    \/ PopupInsertResolved
    \/ NoMicrotask /\ SessionClick
    \/ NoMicrotask /\ InterruptRespond
    \/ NoMicrotask /\ SessionInsert
    \/ NoMicrotask /\ PopupTyping
    \/ NoMicrotask /\ PopupStatsResolved
    \/ NoMicrotask /\ PopupEscape
    \/ NoMicrotask /\ PopupHideTimer
    \/ NoMicrotask /\ PopupListenTimer

SpecSession == InterruptInit /\ [][SessionNext]_vars

\* Context extraction on its own: the adapter of any platform, a page of any
\* texts.
ContextInit ==
    /\ EngineIdle /\ PopupIdle /\ ApiIdle /\ UtilIdle
    /\ platform \in Platforms \cup {"base"}
    /\ started = TRUE
    /\ layout = [s \in Surfaces |-> "full"]
    /\ mounted = [s \in Surfaces |-> FALSE]
    /\ visible = [s \in Surfaces |-> FALSE]
    /\ buttons = [k \in Keys |-> 0]
    /\ processedInputs = {}
    /\ pendingProc = {}
    /\ pendingScans = 0
    /\ routeTimers = 0

ContextExtract ==
    /\ \E page \in Pages(platform) : ExtractContext(page)
    /\ UNCHANGED <<engineVars, adapterVars, popupVars, apiVars, observer, waiter, position, drag, session, statsStore>>

ContextNext == ContextExtract

SpecContext == ContextInit /\ [][ContextNext]_vars

\* observeElements on its own: a page script builds and rearranges a tree
\* below the root before and after the call.
ObserveInit ==
    /\ EngineIdle /\ AdapterIdle /\ PopupIdle /\ ApiIdle
    /\ extracted = NoExtract /\ waiter = WaiterIdle /\ position = PositionIdle
    /\ drag = DragIdle /\ session = SessionIdle /\ statsStore = StatsIdle
    /\ \E par \in [DomNodes -> {Null, RootNode} \cup DomNodes], m \in [DomNodes -> BOOLEAN] :
          /\ \A n \in DomNodes : par[n] \in DomNodes => par[n] < n
          /\ observer = [ObserverIdle EXCEPT !.parent = par, !.matches = m]

ObserveCall ==
    /\ ObserveElements
    /\ UNCHANGED <<engineVars, adapterVars, popupVars, apiVars, extracted, waiter, position, drag, session, statsStore>>
ObserveAppend ==
    /\ \E n \in DomNodes, p \in DomNodes \cup {RootNode} : AppendChild(n, p)
    /\ UNCHANGED <<engineVars, adapterVars, popupVars, apiVars, extracted, waiter, position, drag, session, statsStore>>
ObserveRemove ==
    /\ \E n \in DomNodes : RemoveChild(n)
    /\ UNCHANGED <<engineVars, adapterVars, popupVars, apiVars, extracted, waiter, position, drag, session, statsStore>>
ObserveDeliver ==
    /\ DeliverMutations
    /\ UNCHANGED <<engineVars, adapterVars, popupVars, apiVars, extracted, waiter, position, drag, session, statsStore>>

ObserveNext == ObserveCall \/ ObserveAppend \/ ObserveRemove \/ ObserveDeliver

SpecObserve == ObserveInit /\ [][ObserveNext]_vars

\* waitForElement on its own: a page script builds and rearranges a tree below
\* the root before, while and after the promise is pending.
WaitInit ==
    /\ EngineIdle /\ AdapterIdle /\ PopupIdle /\ ApiIdle
    /\ extracted = NoExtract /\ observer = ObserverIdle /\ position = PositionIdle
    /\ drag = DragIdle /\ session = SessionIdle /\ statsStore = StatsIdle
    /\ \E par \in [DomNodes -> {Null, RootNode} \cup DomNodes], m \in [DomNodes -> BOOLEAN] :
          /\ \A n \in DomNodes : par[n] \in DomNodes => par[n] < n
          /\ waiter = [WaiterIdle EXCEPT !.parent = par, !.matches = m]

WaitCall ==
    /\ \E el \in DomNodes \cup {Null} : WaitForElement(el)
    /\ UNCHANGED <<engineVars, adapterVars, popupVars, apiVars, extracted, observer, position, drag, session, statsStore>>
WaitAppend ==
    /\ \E n \in DomNodes, p \in DomNodes \cup {RootNode} : WaitAppendChild(n, p)
    /\ UNCHANGED <<engineVars, adapterVars, popupVars, apiVars, extracted, observer, position, drag, session, statsStore>>
WaitRemove ==
    /\ \E n \in DomNodes : WaitRemoveChild(n)
    /\ UNCHANGED <<engineVars, adapterVars, popupVars, apiVars, extracted, observer, position, drag, session, statsStore>>
WaitDelivered ==
    /\ \E el \in DomNodes \cup {Null} : WaitDeliver(el)
    /\ UNCHANGED <<engineVars, adapterVars, popupVars, apiVars, extracted, observer, position, drag, session, statsStore>>
WaitTimer ==
    /\ WaitTimeout
    /\ UNCHANGED <<engineVars, adapterVars, popupVars, apiVars, extracted, observer, position, drag, session, statsStore>>

WaitNext == WaitCall \/ WaitAppend \/ WaitRemove \/ WaitDelivered \/ WaitTimer

SpecWait == WaitInit /\ [][WaitNext]_vars

\* calculatePopupPosition on its own, for every window, popup size and trigger
\* rectangle of the grid.
PositionInit ==
    /\ EngineIdle /\ AdapterIdle /\ PopupIdle /\ ApiIdle
    /\ extracted = NoExtract /\ observer = ObserverIdle /\ waiter = WaiterIdle
    /\ drag = DragIdle /\ session = SessionIdle /\ statsStore = StatsIdle
    /\ \E v \in Viewports :
          \E size \in PopupSizes(v), rect \in TriggerRects(v) :
              position = [view |-> v, popupSize |-> size, rect |-> rect,
                          result |-> NoPosition]

PositionCalculate ==
    /\ CalculatePopupPosition
    /\ UNCHANGED <<engineVars, adapterVars, popupVars, apiVars, extracted, observer, waiter, drag, session, statsStore>>

PositionNext == PositionCalculate

SpecPosition == PositionInit /\ [][PositionNext]_vars

\* Dragging the popup on a YouTube page with the default settings: the popup is
\* opened from a trigger control in a corner of the window, answers arrive, and
\* the user presses on the header, moves the pointer and releases.
DragInit ==
    /\ PopupInit /\ AdapterReady /\ EngineIdle /\ ApiIdle
    /\ extracted = NoExtract /\ observer = ObserverIdle /\ waiter = WaiterIdle
    /\ position = PositionIdle
    /\ session = SessionIdle /\ statsStore = StatsIdle
    /\ platform = "youtube"
    /\ settings = [defaultTone |-> "auto", typingSimulation |-> TRUE,
                   typingSpeed |-> DefaultSpeed]
    /\ \E v \in Viewports, s \in DragSizes :
          drag = [DragIdle EXCEPT !.view = v, !.size = s]

\* A click on the trigger control of the first comment box, no mouse button
\* being held: handleButtonClick, whose show() places the popup with
\* calculatePopupPosition(trigger, {width: 380, height: 400}).
DragClick ==
    /\ ~drag.listening
    /\ HandleButtonClick([key |-> <<"main", 1>>, n |-> 1], "p1")
    /\ IF isOpen(Popup) /\ currentTriggerButton = [key |-> <<"main", 1>>, n |-> 1]
       THEN UNCHANGED drag
       ELSE \E rect \in DragTriggerRects(drag.view) :
               drag' = [drag EXCEPT !.position =
                          calculatePopupPosition(rect,
                              [width |-> Px(POPUP_WIDTH), height |-> Px(POPUP_HEIGHT)],
                              drag.view)]
    /\ UNCHANGED <<engineVars, adapterVars, apiVars, extracted, observer, waiter, position, session, statsStore>>

DragRespond ==
    /\ \E req \in BagToSet(requests) :
          \E kind \in {"success", "failed"} :
              Respond(req, [kind |-> kind, n |-> SUGGESTIONS_COUNT])
    /\ UNCHANGED <<engineVars, adapterVars, apiVars, utilVars>>

\* mousedown on the popup's header.
DragPress ==
    /\ element
    /\ ~drag.listening
    /\ \E off \in PressOffsets :
          drag' = handleDragStart(drag, [x |-> drag.position.left + off.x,
                                         y |-> drag.position.top + off.y])
    /\ UNCHANGED <<engineVars, adapterVars, popupVars, apiVars, extracted, observer, waiter, position, session, statsStore>>

\* mousemove on the document while the button is held.
DragMove ==
    /\ drag.listening
    /\ \E e \in PointerPlaces(drag.view) :
          /\ e # drag.pointer
          /\ drag' = handleDrag(drag, e, element)
    /\ UNCHANGED <<engineVars, adapterVars, popupVars, apiVars, extracted, observer, waiter, position, session, statsStore>>

\* The button is released: mouseup runs handleDragEnd, and the browser then
\* dispatches a click. When press and release are on different elements the
\* click goes to their nearest common ancestor (older browsers dispatch none):
\* with the pointer outside the popup's box, that ancestor is outside the popup
\* and handleClickOutside, if registered, takes the click.
DragRelease ==
    /\ drag.listening
    /\ drag' = handleDragEnd(drag)
    /\ \E click \in BOOLEAN :
          IF click /\ clickListener /\ ~PointerOverPopup(drag)
          THEN /\ commitPopup(handleClickOutside(Popup))
               /\ UNCHANGED <<currentTriggerButton, settings, requests, lastRequest,
                              awaiting>>
          ELSE UNCHANGED popupVars
    /\ UNCHANGED <<engineVars, adapterVars, apiVars, extracted, observer, waiter, position, session, statsStore>>

DragNext ==
    \/ DragClick
    \/ DragRespond
    \/ PopupListenTimer
    \/ PopupHideTimer
    \/ DragPress
    \/ DragMove
    \/ DragRelease

SpecDrag == DragInit /\ [][DragNext]_vars

\* The choice of the insertion mode on all four platforms, with the typing
\* setting on or off: the page's comment box has its trigger control (found
\* on LinkedIn and Twitter as on YouTube), the popup is opened, suggestions
\* arrive and are chosen one at a time, and meanwhile the page may detach the
\* comment box.
ModeInit ==
    /\ PopupInit /\ EngineIdle /\ ApiIdle /\ UtilIdle
    /\ settings.defaultTone = "auto"
    /\ platform \in Platforms
    /\ started = TRUE
    /\ mounted = [s \in Surfaces |-> TRUE]
    /\ visible = [s \in Surfaces |-> TRUE]
    /\ layout = [s \in Surfaces |-> ReadyLayout(platform)]
    /\ LET page == [platform |-> platform, mounted |-> mounted, visible |-> visible,
                    layout |-> layout, buttons |-> [k \in Keys |-> 0],
                    processed |-> {}]
           ready == scanForInputs(observeAll(page, NSurf))
       IN /\ buttons = ready.buttons
          /\ processedInputs = ready.processed
    /\ pendingProc = {}
    /\ pendingScans = 0
    /\ routeTimers = 0

\* A click on the trigger control of the comment box.
ModeClick ==
    /\ \E role \in RolesOf(platform) :
          HandleButtonClick([key |-> <<role, 1>>, n |-> 1], "p1")
    /\ UNCHANGED <<engineVars, adapterVars, apiVars, utilVars>>

\* The page detaches the comment box.
ModeDetach == Unmount(1) /\ UNCHANGED <<engineVars, popupVars, apiVars, utilVars>>

ModeNext ==
    \/ ModeClick
    \/ InterruptRespond
    \/ ChooseInsert
    \/ PopupTyping
    \/ PopupInsertResolved
    \/ PopupStatsResolved
    \/ PopupHideTimer
    \/ ModeDetach

SpecMode == ModeInit /\ [][ModeNext]_vars

\* The service worker's statistics on their own: generation and insertion
\* notifications and resets arrive in any order, calls overlap, and the
\* callbacks of the storage requests come in any order.
StatsInit ==
    /\ EngineIdle /\ AdapterIdle /\ PopupIdle /\ ApiIdle
    /\ extracted = NoExtract /\ observer = ObserverIdle /\ waiter = WaiterIdle
    /\ position = PositionIdle /\ drag = DragIdle /\ session = SessionIdle
    /\ statsStore = StatsIdle

StatsCallGenerated ==
    /\ \E o \in 1..MaxOps, pf \in StatPlatforms, tone \in StatTones :
          StatsGenerated(o, pf, tone)
    /\ UNCHANGED <<engineVars, adapterVars, popupVars, apiVars, extracted, observer,
                   waiter, position, drag, session>>
StatsCallInserted ==
    /\ \E o \in 1..MaxOps : StatsInserted(o)
    /\ UNCHANGED <<engineVars, adapterVars, popupVars, apiVars, extracted, observer,
                   waiter, position, drag, session>>
StatsCallReset ==
    /\ \E o \in 1..MaxOps : StatsReset(o)
    /\ UNCHANGED <<engineVars, adapterVars, popupVars, apiVars, extracted, observer,
                   waiter, position, drag, session>>
StatsGot ==
    /\ \E o \in 1..MaxOps : StatsRead(o)
    /\ UNCHANGED <<engineVars, adapterVars, popupVars, apiVars, extracted, observer,
                   waiter, position, drag, session>>
StatsSet ==
    /\ \E o \in 1..MaxOps : StatsSaved(o)
    /\ UNCHANGED <<engineVars, adapterVars, popupVars, apiVars, extracted, observer,
                   waiter, position, drag, session>>

StatsNext ==
    \/ StatsCallGenerated
    \/ StatsCallInserted
    \/ StatsCallReset
    \/ StatsGot
    \/ StatsSet

SpecStats == StatsInit /\ [][StatsNext]_vars

----------------------------------------------------------------------------
\* Properties of the insertion engine.

Settled(r) == runs[r].pc = "settled"
OnPlainInput(r) == runs[r].el # Null /\ PathOf(runs[r].el) = "input"
ArgsAbsent(run) == run.el = Null \/ run.text = <<>>

\* The events the recorder saw from run r.
EventsOf(r) == LET ofRun(e) == e.run = r IN SelectSeq(events, ofRun)
KeyEventsOf(r) ==
    LET key(e) == /\ e.run = r
                  /\ (e.type \in {"keydown", "keypress", "keyup"}
                      \/ (e.type = "input" /\ e.data # NoData))
    IN SelectSeq(events, key)
ChangesOf(r) == LET chg(e) == e.run = r /\ e.type = "change" IN SelectSeq(events, chg)
TypesOf(s) == [j \in 1..Len(s) |-> s[j].type]

QuadTypes == <<"keydown", "keypress", "input", "keyup">>

\* The first n quadruples a simulated insertion of run r into a plain input
\* must produce: quadruple j is for text[j], seen with start \o text[1..j].
ExpectedQuads(r, n) ==
    [j \in 1..(4 * n) |->
        LET c == ((j - 1) \div 4) + 1
        IN [type |-> QuadTypes[((j - 1) % 4) + 1], data |-> runs[r].text[c],
            el |-> runs[r].el, run |-> r,
            val |-> runs[r].start \o SubSeq(runs[r].text, 1, c)]]

\* C5: insertText never rejects: a settled call resolved true or false, false
\* exactly when the element or the text was absent/empty or a step raised; and a
\* call refused for an absent/empty argument dispatches no event and leaves the
\* page untouched.
C5_InsertTextNeverThrows ==
    [][\A r \in RunIds :
          /\ (runs'[r].pc = "settled") =>
                /\ runs'[r].result \in {"true", "false"}
                /\ (runs'[r].result = "false") <=> (ArgsAbsent(runs'[r]) \/ runs'[r].threw)
          /\ (runs[r].pc = "free" /\ runs'[r].pc = "settled" /\ ArgsAbsent(runs'[r]))
                => UNCHANGED <<value, selection, events>>]_vars

\* A call that raised after its first character was typed has resolved false.
C5_Witness ==
    \E r \in RunIds : Settled(r) /\ runs[r].threw /\ runs[r].i >= 1
                      /\ runs[r].result = "false"

\* C6: a simulated insertion into a plain input has produced, after i characters,
\* exactly i quadruples keydown, keypress, input(char), keyup, in source order,
\* each dispatched with the character already appended to the value.
C6_QuadruplesInOrder ==
    \A r \in RunIds :
        (runs[r].pc # "free" /\ ~ArgsAbsent(runs[r]) /\ runs[r].simulate /\ OnPlainInput(r))
        => /\ KeyEventsOf(r) = ExpectedQuads(r, runs[r].i)
           /\ (runs[r].result = "true" => runs[r].i = Len(runs[r].text))

\* A simulated insertion of two characters into a plain input has completed.
C6_Witness ==
    \E r \in RunIds : /\ Settled(r) /\ runs[r].result = "true" /\ runs[r].simulate
                      /\ OnPlainInput(r) /\ Len(runs[r].text) = 2
                      /\ Len(KeyEventsOf(r)) = 8

C8_DirectMode ==
    \A r \in RunIds :
        (runs[r].pc # "free" /\ ~ArgsAbsent(runs[r]) /\ ~runs[r].simulate /\ OnPlainInput(r))
        => /\ Settled(r)
           /\ (runs[r].result = "true") =>
                 /\ value[runs[r].el] = runs[r].text
                 /\ TypesOf(EventsOf(r)) = <<"input", "change">>
                 /\ \A j \in 1..Len(EventsOf(r)) : EventsOf(r)[j].val = runs[r].text

\* A direct insertion replaced the value "x" of a plain input.
C8_Witness ==
    \E r \in RunIds : /\ Settled(r) /\ runs[r].result = "true" /\ ~runs[r].simulate
                      /\ OnPlainInput(r) /\ runs[r].start = <<"x">>
                      /\ Len(runs[r].text) = 2

SimulatedDone(r) ==
    Settled(r) /\ runs[r].result = "true" /\ runs[r].simulate /\ ~ArgsAbsent(runs[r])

\* C9 as stated: on every kind of surface a completed simulated insertion has
\* dispatched exactly one change notification, as its last event.
C9_OneChangeOnEverySurface ==
    \A r \in RunIds :
        SimulatedDone(r) =>
            /\ Len(ChangesOf(r)) = 1
            /\ EventsOf(r)[Len(EventsOf(r))].type = "change"

\* C9 amended: a completed simulated insertion into a plain input has dispatched
\* exactly one change notification, after the key-up of the last character; into
\* a content-editable region it has dispatched no change notification and ends
\* with one input notification carrying no character; through the
\* editing-command fallback it ends with the key-up of the last character.
C9_FinalNotificationPerPath ==
    \A r \in RunIds :
        SimulatedDone(r) =>
            LET evs == EventsOf(r)
                n == Len(runs[r].text)
                path == PathOf(runs[r].el)
            IN /\ TypesOf(SubSeq(evs, 1, 4 * n)) =
                     [j \in 1..(4 * n) |-> QuadTypes[((j - 1) % 4) + 1]]
               /\ (path = "input") =>
                     (Len(evs) = 4 * n + 1 /\ evs[4 * n + 1].type = "change")
               /\ (path = "editable") =>
                     /\ Len(evs) = 4 * n + 1
                     /\ evs[4 * n + 1].type = "input" /\ evs[4 * n + 1].data = NoData
               /\ (path = "exec") => (Len(evs) = 4 * n)

\* Completed simulated insertions exist on a content-editable region.
C9_Witness ==
    \E r \in RunIds : SimulatedDone(r) /\ PathOf(runs[r].el) = "editable"
                      /\ Len(runs[r].text) = 2


----------------------------------------------------------------------------
\* Properties of the platform adapters.

\* Container k has not been handled: no control, not in the ProcessedSet, and
\* on Instagram its form (for a textbox) is not in the ProcessedSet either.
Fresh(k) ==
    /\ Present(Adapter, k)
    /\ buttons[k] = 0
    /\ k \notin processedInputs
    /\ (k[1] = "textbox") => (<<"form", k[2]>> \notin processedInputs)

\* The routine finds what it needs to place a control for container k.
Anchorable(k) ==
    CASE platform = "youtube" -> layout[k[2]] = "full"
      [] platform = "instagram" -> layout[k[2]] # "formEmpty"
      [] platform = "linkedin" -> layout[k[2]] = "full"
      [] platform = "base" -> visible[k[2]]
      [] OTHER -> TRUE

Once(k) == processKey(Adapter, k)
Twice(k) == processKey(Once(k), k)

\* C1 (as stated): applying the injection routine twice to a fresh container
\* inserts exactly one trigger control, and the second application changes nothing.
C1_TwiceInsertsExactlyOne ==
    \A k \in Keys : (started /\ Fresh(k)) =>
        /\ Twice(k).buttons[k] = 1
        /\ Twice(k) = Once(k)

\* C1 (amended): applying the injection routine twice to the same container
\* inserts at most one trigger control - exactly one when the container is
\* fresh and the routine finds its anchor (a visible element for the base
\* routine), none otherwise; the second application inserts nothing and leaves
\* the ProcessedSet unchanged, and a container is recorded exactly when its
\* control was inserted.
C1_TwiceInsertsAtMostOne ==
    \A k \in Keys : Present(Adapter, k) =>
        /\ Twice(k) = Once(k)
        /\ Once(k).buttons[k] \in {buttons[k], buttons[k] + 1}
        /\ \A j \in Keys \ {k} : Once(k).buttons[j] = buttons[j]
        /\ Once(k).processed \ processedInputs =
              IF Once(k).buttons[k] = buttons[k] + 1 THEN {k} ELSE {}
        /\ processedInputs \subseteq Once(k).processed
        /\ Fresh(k) => ((Once(k).buttons[k] = 1) <=> Anchorable(k))
        /\ (k \in processedInputs) => (Once(k) = Adapter)

\* C1 witness: a container that the routine has handled (one control, recorded)
\* while a second application of the routine to it is still due.
C1_Witness ==
    \E k \in Keys :
        /\ started
        /\ Present(Adapter, k)
        /\ k \in processedInputs
        /\ buttons[k] = 1
        /\ k \in pendingProc

\* C2: every container that is mounted in the page holds at most one trigger
\* control, whatever route changes and scans have happened.
C2_AtMostOneControlPerLiveContainer ==
    \A k \in Keys : mounted[k[2]] => buttons[k] <= 1


----------------------------------------------------------------------------
\* Properties of the popup and the controller.

\* The popup's logical state.
LogicalState(visible_, loading_, error_, list_) ==
    IF ~visible_ THEN "Closed"
    ELSE IF loading_ THEN "Loading"
    ELSE IF error_ # NoError THEN "Error"
    ELSE IF list_ # <<>> THEN "Suggestions"
    ELSE "Empty"

AllowedChanges ==
    {<<"Closed", "Loading">>, <<"Loading", "Suggestions">>, <<"Loading", "Error">>,
     <<"Suggestions", "Loading">>, <<"Error", "Loading">>}
    \cup {<<from, "Closed">> : from \in {"Loading", "Suggestions", "Error", "Empty"}}

\* C3: every change of the popup's logical state is Closed->Loading,
\* Loading->Suggestions, Loading->Error, Suggestions->Loading, Error->Loading
\* or (any)->Closed.
C3_OnlyListedStateChanges ==
    [][LET from == LogicalState(isVisible, isLoading, error, suggestions)
           to == LogicalState(isVisible', isLoading', error', suggestions')
       IN from # to => <<from, to>> \in AllowedChanges]_vars

\* C4: no two runs of insertText are in progress on the same surface.
C4_NoOverlappingRuns ==
    \A r1, r2 \in RunIds :
        (r1 # r2 /\ runs[r1].pc = "sleeping" /\ runs[r2].pc = "sleeping")
            => runs[r1].el # runs[r2].el

\* C10: a click on a trigger control that opens the popup puts it in Loading
\* and issues exactly one generation request, carrying the context built for
\* this click and the tone the popup shows as selected.
C10_ClickRequestsSelectedTone ==
    [][\A b \in TriggerButtons, post \in Posts :
          (HandleButtonClick(b, post) /\ currentTriggerButton' = b) =>
              /\ isVisible' /\ isLoading'
              /\ requests' = requests (+) SetToBag({
                    [context |-> [surface |-> b.key[2], post |-> post],
                     tone |-> currentTone']})]_vars

\* The response the controller gets when ApiService.generateReplies caught a
\* failure: success = false, an error message and the tone's fallback list.
FallbackOutcome == [kind |-> "fallback", n |-> SUGGESTIONS_COUNT]

\* C11: when the completion service rejects a generation request, the popup
\* goes from Loading to Error, and the fallback list of exactly 3 entries of
\* the requested tone accompanies that failure.
C11_RejectionShowsErrorWithFallbacks ==
    [][\A req \in BagToSet(requests) :
          (/\ Respond(req, FallbackOutcome)
           /\ LogicalState(isVisible, isLoading, error, suggestions) = "Loading")
          => /\ LogicalState(isVisible', isLoading', error', suggestions') = "Error"
             /\ Len(suggestions') = SUGGESTIONS_COUNT
             /\ \A i \in 1..Len(suggestions') : suggestions'[i].tone = req.tone]_vars

\* C12: the state in which the popup displays the fallback suggestions of a
\* failed generation differs from the state reached by a successful generation
\* that delivered the same list: no step is both.
C12_FallbackStateRecordsFailure ==
    [][\A req \in BagToSet(requests) :
          ~(/\ Respond(req, FallbackOutcome)
            /\ Respond(req, [kind |-> "success", n |-> SUGGESTIONS_COUNT]))]_vars

\* C15: an insertion whose insertText resolved false does not close the popup:
\* when the controller learns of it while the popup is open and not closing,
\* no removal of the popup is scheduled.
C15_FailedInsertionKeepsPopupOpen ==
    [][\A r \in RunIds :
          (/\ InsertResolved(r)
           /\ runs[r].result = "false"
           /\ isVisible /\ hideTimers = 0)
          => (isVisible' /\ hideTimers' = 0)]_vars

\* C18: every opening of the popup from Closed starts with the persisted
\* defaultTone selected, whatever tone earlier sessions chose, and no step of
\* the popup writes the settings.
C18_SessionStartsWithDefaultTone ==
    [][/\ settings' = settings
       /\ \A b \in TriggerButtons, post \in Posts :
             (HandleButtonClick(b, post) /\ ~isVisible /\ isVisible')
                 => currentTone' = settings.defaultTone]_vars

\* C20: in the Error state, a click on retry puts the popup in Loading and
\* issues one generation request equal to the request issued last: same
\* context, same tone.
C20_RetryReissuesLastRequest ==
    [][(/\ ClickRetry
        /\ LogicalState(isVisible, isLoading, error, suggestions) = "Error")
       => /\ LogicalState(isVisible', isLoading', error', suggestions') = "Loading"
          /\ requests' = requests (+) SetToBag({lastRequest})]_vars

\* C17: whatever trigger clicks, close actions, navigation events and timers
\* have happened, at most one popup node is attached to the document, and it
\* is the node the popup holds.
C17_AtMostOnePopupAttached ==
    /\ attached <= 1
    /\ attached = (IF element THEN 1 ELSE 0)

\* C17 witness: after a navigation and its re-scan, the popup was shown again
\* on the node whose removal hide() had scheduled and which is still due.
C17_Witness ==
    /\ attached = 1
    /\ hideTimers > 0
    /\ keydownListener
    /\ listenTimers > 0
    /\ \E k \in Keys : buttons[k] > 1

\* The popup is open and no removal of it is due.
OpenAndStaying == isVisible /\ hideTimers = 0

InSuggestions == LogicalState(isVisible, isLoading, error, suggestions) = "Suggestions"

\* C19: in Suggestions, a click on another tone or on regenerate puts the
\* popup in Loading and issues exactly one request, carrying the tone now
\* selected and the stored context; tone changes and regenerations leave the
\* stored context and target alone, which are those of the trigger control
\* that opened the popup.
C19_ToneChangeAndRegenerateReissue ==
    /\ [][/\ \A tone \in Tones :
                (ClickTone(tone) /\ tone # currentTone /\ InSuggestions)
                    => /\ isVisible' /\ isLoading'
                       /\ currentTone' = tone
                       /\ requests' = requests (+)
                             SetToBag({[context |-> context, tone |-> tone]})
          /\ (ClickRegenerate /\ InSuggestions)
                => /\ isVisible' /\ isLoading'
                   /\ currentTone' = currentTone
                   /\ requests' = requests (+)
                         SetToBag({[context |-> context, tone |-> currentTone]})
          /\ (ClickRegenerate \/ \E tone \in Tones : ClickTone(tone))
                => (context' = context /\ targetInput' = targetInput)]_vars
    /\ []((isVisible /\ currentTriggerButton # NoButton) =>
             /\ context.surface = currentTriggerButton.key[2]
             /\ targetInput = getInputElement(platform, context.surface))

\* C19 witness: the only request in flight was issued by a tone change or a
\* regeneration: it carries the stored context and the selected tone, which is
\* not the default tone of the trigger click.
C19_Witness ==
    /\ isVisible /\ isLoading
    /\ requests = SetToBag({lastRequest})
    /\ lastRequest = [context |-> context, tone |-> currentTone]
    /\ currentTone # settings.defaultTone
    /\ currentTone # "auto"

\* C16: choosing suggestion i calls insertText with the i-th text of the
\* displayed list and the stored target (and makes no call for an empty
\* suggestion); the inserted-stats message is sent exactly when an insertion's
\* insertText has resolved true, once per insertion, and never when it resolved
\* false or no call was made.
C16_InsertArgumentsAndStats ==
    [][/\ \A i \in 1..SUGGESTIONS_COUNT, r \in RunIds, throwAt \in PopupThrowPoints :
             ClickSuggestion(i, r, throwAt) =>
                IF suggestions[i].text = <<>>
                THEN runs' = runs /\ awaiting' = awaiting
                ELSE /\ runs[r].pc = "free"
                     /\ runs'[r].text = suggestions[i].text
                     /\ runs'[r].el = targetInput
                     /\ awaiting' = [awaiting EXCEPT ![r] = "insert"]
                     /\ \A q \in RunIds \ {r} : runs'[q] = runs[q]
       /\ \A r \in RunIds :
             /\ (awaiting[r] # "stats" /\ awaiting'[r] = "stats")
                   <=> (InsertResolved(r) /\ runs[r].result = "true")
             /\ (awaiting[r] = "stats" /\ awaiting'[r] # "stats") => StatsResolved(r)
             /\ (InsertResolved(r) /\ runs[r].result # "true") => awaiting'[r] = "none"]_vars

\* C16 witness: the second suggestion was chosen, insertText got its text and
\* the stored target and resolved true, and the stats message is out.
C16_Witness ==
    \E r \in RunIds :
        /\ awaiting[r] = "stats"
        /\ runs[r].result = "true"
        /\ Len(suggestions) >= 2
        /\ runs[r].text = suggestions[2].text
        /\ runs[r].text # suggestions[1].text
        /\ runs[r].el = targetInput

----------------------------------------------------------------------------
\* Properties of the completion client.

\* The least position from `from` on at which sub occurs in s; 0 if none.
FindFrom(s, sub, from) ==
    LET at == {i \in from..(Len(s) - Len(sub) + 1) :
                  SubSeq(s, i, i + Len(sub) - 1) = sub}
    IN IF at = {} THEN 0 ELSE CHOOSE i \in at : \A j \in at : i <= j

\* The texts of list occur in s one after the other, without overlap.
RECURSIVE InOrderFrom(_, _, _)
InOrderFrom(list, s, from) ==
    IF list = <<>> THEN TRUE
    ELSE LET i == FindFrom(s, Head(list), from)
         IN i # 0 /\ InOrderFrom(Tail(list), s, i + Len(Head(list)))

\* The call met a missing key, a failed read or transport, a non-OK status, an
\* unreadable or empty body, or a text without a parsable suggestion.
ApiFailed ==
    \/ api.key \in {"absent", "rejects"}
    \/ api.fetch \in {"rejects", "notOk"}
    \/ api.body \in {"invalid", "noContent"}
    \/ api.body = "content" /\ (api.content = <<>> \/ parseResponse(api.content) = <<>>)

----------------------------------------------------------------------------
\* Properties of insertions that outlast the popup.

InProgress(r) == runs[r].pc = "sleeping"

\* Everything a completed simulated insertion of run r into a plain input
\* dispatches: one quadruple per character, then the change notification.
CompletedEvents(r) ==
    ExpectedQuads(r, Len(runs[r].text))
    \o <<[type |-> "change", data |-> NoData, el |-> runs[r].el, run |-> r,
          val |-> runs[r].start \o runs[r].text]>>

\* C21: a simulated insertText that has started runs to completion whatever
\* happens to the popup meanwhile (Escape, outside click, toggle click,
\* navigation, the hide timer): while it is in progress its next character can
\* always be typed, every step either leaves it alone, types exactly the next
\* character or settles it, and when it settles without a failed step it has
\* resolved true after dispatching the events of every character of the text.
C21_InsertionRunsToCompletion ==
    /\ [](\A r \in RunIds :
            /\ InProgress(r) =>
                  /\ runs[r].simulate
                  /\ runs[r].i \in 1..Len(runs[r].text)
                  /\ EventsOf(r) = ExpectedQuads(r, runs[r].i)
                  /\ ENABLED SleepDone(r, "none", 0)
            /\ Settled(r) /\ runs[r].simulate /\ ~runs[r].threw
                  /\ ~ArgsAbsent(runs[r]) =>
                  /\ runs[r].result = "true"
                  /\ runs[r].i = Len(runs[r].text)
                  /\ EventsOf(r) = CompletedEvents(r))
    /\ [][\A r \in RunIds :
            InProgress(r) =>
               \/ runs'[r] = runs[r] /\ events' = events /\ value' = value
               \/ /\ runs'[r] = [runs[r] EXCEPT !.i = @ + 1]
                  /\ Len(events') = Len(events) + 4
               \/ /\ Settled(r)'
                  /\ runs'[r].threw \/ runs[r].i = Len(runs[r].text)]_vars

\* C21 witness: a two-character insertion has resolved true with all its events
\* dispatched, and the popup was closed and removed from the page while the
\* text was being typed (the handler that awaits the insertion has not resumed).
C21_Witness ==
    \E r \in RunIds :
        /\ Settled(r) /\ runs[r].simulate /\ runs[r].result = "true"
        /\ Len(runs[r].text) >= 2
        /\ EventsOf(r) = CompletedEvents(r)
        /\ awaiting[r] = "insert"
        /\ ~element /\ ~isVisible /\ attached = 0

\* The service answered with a text and the call has resolved.
Parsed == api.pc = "done" /\ api.body = "content" /\ api.content # <<>>

\* A line that starts with digits and a period, and one that has something
\* after the period.
StartsNumbered(line) ==
    LeadingDigits(line) > 0 /\ LeadingDigits(line) < Len(line)
    /\ line[LeadingDigits(line) + 1] = "."
NumberedWithText(line) == StartsNumbered(line) /\ LeadingDigits(line) + 1 < Len(line)

\* What follows the prefix of a numbered line, without surrounding white space
\* and quotes.
NumberedText(line) ==
    stripQuotes(trim(SubSeq(line, LeadingDigits(line) + 2, Len(line))))
TextsOf(lines) == [j \in 1..Len(lines) |-> NumberedText(lines[j])]

\* The paragraphs of a text that are longer than 5 characters once trimmed and
\* unquoted.
LongParagraphs(content) ==
    LET parts == splitParagraphs(content)
        cleaned == [j \in 1..Len(parts) |-> stripQuotes(trim(parts[j]))]
        long(t) == Len(t) > 5
    IN SelectSeq(cleaned, long)

\* The suggestions a resolved call carries must be `expected`; a call whose
\* text yields none resolves as a failure.
Delivers(expected) ==
    IF expected = <<>> THEN ~api.result.success
    ELSE api.result.success /\ api.result.suggestions = expected

\* C22 as stated: paragraphs are used only when no line starts with a
\* numeral-dot prefix; otherwise the result is the first 3 texts of the lines
\* that start with one.
C22_ParagraphsOnlyWithoutPrefixedLine ==
    Parsed =>
        LET prefixed == SelectSeq(splitLines(api.content), StartsNumbered)
        IN Delivers(slice(IF prefixed = <<>> THEN LongParagraphs(api.content)
                          ELSE TextsOf(prefixed), 3))

\* C22: parseResponse returns at most 3 suggestions in source order: when at
\* least one line starts with a numeral-dot prefix that is followed by at least
\* one more character, the result is the first 3 of the texts of such lines,
\* trimmed and with a surrounding quote stripped ('1. Hi', '2. "Yo"', "3. '" on
\* three lines yield Hi, Yo and the empty text); paragraph splitting, keeping
\* the parts longer than 5 characters, is used exactly when no line is of that
\* form.
C22_NumberedLinesElseParagraphs ==
    Parsed =>
        LET numbered == SelectSeq(splitLines(api.content), NumberedWithText)
        IN /\ Delivers(slice(IF numbered = <<>> THEN LongParagraphs(api.content)
                             ELSE TextsOf(numbered), 3))
           /\ api.result.success => Len(api.result.suggestions) <= 3
           /\ api.content = joinLines(<< <<"1", ".", " ", "H", "i">>,
                                         <<"2", ".", " ", "\"", "Y", "o", "\"">>,
                                         <<"3", ".", " ", "'">> >>)
                 => api.result.suggestions = << <<"H", "i">>, <<"Y", "o">>, <<>> >>

\* C22 witness: a text of four numbered lines, of which the first three are
\* delivered.
C22_Witness ==
    /\ Parsed /\ api.result.success
    /\ Len(SelectSeq(splitLines(api.content), NumberedWithText)) = 4
    /\ Len(api.result.suggestions) = 3
    /\ api.result.suggestions = << <<"H", "i">>, <<"Y", "o">>, <<>> >>

----------------------------------------------------------------------------
\* Properties of context extraction.

\* The primary and secondary text fields of a context.
TextFields(ctx) == DOMAIN ctx \ {"platform", "postAuthor", "tweetAuthor"}

\* C23: in every context built by an adapter's extractContext, each primary and
\* secondary text field is null or at most 500 characters long.
C23_TextFieldsAtMost500 ==
    \A f \in TextFields(extracted) :
        extracted[f] = NullText \/ extracted[f][1] <= 500

----------------------------------------------------------------------------
\* Properties of the DOM utilities.

\* C24: once the queued mutations are delivered, the callback of
\* observeElements has been invoked exactly once for every matching element
\* that was under the root at the call and once more for each time the element
\* was added under the root afterwards, itself or inside an added subtree.
C24_CallbackOncePerAddedMatch ==
    observer.active /\ observer.records = <<>> =>
        \A n \in DomNodes :
            observer.matches[n] /\ InTree(observer.parent, n) =>
                observer.calls[n] = observer.adds[n]

WaitSettled == waiter.state \in {"resolved", "rejected"}

TriggerInside ==
    /\ 0 <= position.rect.left /\ position.rect.right <= position.view.width
    /\ 0 <= position.rect.top /\ position.rect.bottom <= position.view.height
PopupFits ==
    /\ position.popupSize.width <= position.view.width - 2 * Px(16)
    /\ position.popupSize.height <= position.view.height - 2 * Px(16)

\* The result keeps the popup inside the window inset by 16 px on every side.
WithinMargins ==
    /\ Px(16) <= position.result.left
    /\ position.result.left + position.popupSize.width <= position.view.width - Px(16)
    /\ Px(16) <= position.result.top
    /\ position.result.top + position.popupSize.height <= position.view.height - Px(16)

\* C26 as stated: for every trigger rectangle inside the window and every
\* popup that fits inside the margins, the position is within the margins.
C26_EveryTriggerWithinMargins ==
    position.result # NoPosition /\ TriggerInside /\ PopupFits => WithinMargins

\* C26: for every trigger rectangle inside the window that is at least 8 px
\* high and every popup that fits inside the margins, the position is within
\* the margins on both axes; for every trigger inside the window it is within
\* the margins horizontally.
C26_TallTriggerWithinMargins ==
    position.result # NoPosition /\ TriggerInside /\ PopupFits =>
        /\ Px(16) <= position.result.left
        /\ position.result.left + position.popupSize.width
              <= position.view.width - Px(16)
        /\ position.rect.bottom - position.rect.top >= Px(8) => WithinMargins

\* C26 witness: a 1000x800 window, a 380x400 popup and a 32x32 trigger in the
\* bottom right corner: the popup is placed above the trigger, within the
\* margins.
C26_Witness ==
    /\ position.view = [width |-> Px(1000), height |-> Px(800)]
    /\ position.popupSize = [width |-> Px(380), height |-> Px(400)]
    /\ position.rect = [left |-> Px(968), top |-> Px(768), right |-> Px(1000),
                        bottom |-> Px(800)]
    /\ position.result = [top |-> Px(360), left |-> Px(604)]
    /\ WithinMargins

----------------------------------------------------------------------------
\* Properties of dragging.

\* The popup's box at its assigned position lies inside the window inset by
\* 16 px on every side.
BoxWithinMargins(d) ==
    /\ d.position.left >= Px(VIEWPORT_MARGIN)
    /\ d.position.top >= Px(VIEWPORT_MARGIN)
    /\ d.position.left + d.size.width <= d.view.width - Px(VIEWPORT_MARGIN)
    /\ d.position.top + d.size.height <= d.view.height - Px(VIEWPORT_MARGIN)

DragStep == DragPress \/ DragMove \/ DragRelease

\* C27: every position a drag assigns keeps the popup's box inside the window
\* inset by 16 px, and the steps of a drag (press, move, release) change
\* neither the loading flag, the error, the suggestions, the tone, the
\* context, the target nor the open flag, and start no closing of the popup.
C27_DragClampedAndStateUntouched ==
    [][DragStep =>
          /\ drag'.position # drag.position => BoxWithinMargins(drag')
          /\ UNCHANGED <<isLoading, error, suggestions, currentTone, context,
                         targetInput, isVisible, hideTimers>>]_vars

\* C27, the part the handlers keep: a move of the pointer during a drag puts
\* the popup at a clamped place inside the margins.
C27_MoveKeepsBoxWithinMargins ==
    [][DragMove /\ drag'.position # drag.position => BoxWithinMargins(drag')]_vars

----------------------------------------------------------------------------
\* Properties of a call without an API key.

\* The finished call failed after the key was read: transport, status, body or
\* parse failure.
FailedAfterKey == api.pc = "done" /\ api.key = "present" /\ ~api.result.success

\* The finished call found no key: nothing was fetched, and it resolved as a
\* failure with the fallback strings of the requested tone and the message
\* for the missing key.
MissingKeyFailure ==
    api.pc = "done" /\ api.key = "absent" =>
        /\ api.fetch = "none" /\ api.body = "none"
        /\ api.result.state = "resolved"
        /\ ~api.result.success
        /\ api.result.suggestions = getFallbackSuggestions(api.tone)
        /\ api.result.error = KEY_MISSING

\* C28 as stated: without a key no request is sent and the call resolves as a
\* failure with the fallbacks of the requested tone, and its message differs
\* from the message of every transport, status, empty-body or parse failure.
C28_MissingKeyMessageDiffersFromEveryFailure ==
    /\ MissingKeyFailure
    /\ FailedAfterKey => api.result.error # KEY_MISSING

\* C28: without a key no request is sent and the call resolves as a failure
\* with the fallbacks of the requested tone, and its message differs from the
\* message of every transport, empty-body or parse failure and of every status
\* failure whose response carries no message of its own; the message of a
\* response that is not OK is passed on as the service worded it.
C28_MissingKeyMessageDiffersFromClientMessages ==
    /\ MissingKeyFailure
    /\ FailedAfterKey /\ api.serviceMessage = "" => api.result.error # KEY_MISSING
    /\ FailedAfterKey /\ api.serviceMessage # "" =>
          api.result.error = api.serviceMessage

\* C28 witness: a call for the humorous tone found no key and has resolved
\* with its three fallback strings and the message for the missing key.
C28_Witness ==
    /\ api.pc = "done"
    /\ api.key = "absent"
    /\ api.tone = "humorous"
    /\ api.fetch = "none"
    /\ ~api.result.success
    /\ api.result.error = KEY_MISSING
    /\ Len(api.result.suggestions) = 3

----------------------------------------------------------------------------
\* Properties of the choice of the insertion mode.

\* handleInsert has just called insertText as run r.
InsertStarts(r) == runs[r].pc = "free" /\ runs'[r].pc # "free"

\* C29: an insertion the controller starts is simulated exactly when the
\* platform is Instagram, LinkedIn or Twitter and the typingSimulation setting
\* is on, and direct otherwise (always on YouTube), whatever the state of the
\* adapter and however many insertions went before.
C29_SimulatedIffPlatformAndSetting ==
    [][\A r \in RunIds :
          InsertStarts(r) =>
             /\ runs'[r].simulate =
                   (/\ platform \in {"instagram", "linkedin", "twitter"}
                    /\ settings.typingSimulation)
             /\ platform = "youtube" => ~runs'[r].simulate]_vars

\* C29 witness: on Twitter, with the setting on and the comment box already
\* detached from the page, an insertion into a box that holds an earlier
\* suggestion is under way in simulated mode.
C29_Witness ==
    /\ platform = "twitter"
    /\ settings.typingSimulation
    /\ ~mounted[1]
    /\ awaiting[1] = "insert"
    /\ runs[1].pc = "sleeping"
    /\ runs[1].start # <<>>
    /\ runs[1].simulate

----------------------------------------------------------------------------
\* Properties of responses that arrive out of turn.

\* The open popup shows a result: suggestions or an error.
ShowsResult == isVisible /\ Rendered(Popup) \in {"suggestions", "error"}

\* C30: whenever the open popup shows suggestions or an error, the most
\* recently issued request has been answered, and the suggestions shown were
\* generated for that request's context and tone.
C30_ShownResultAnswersLatestRequest ==
    ShowsResult =>
        /\ ~BagIn(lastRequest, requests)
        /\ \A i \in 1..Len(suggestions) :
              /\ suggestions[i].context = lastRequest.context
              /\ suggestions[i].tone = lastRequest.tone

----------------------------------------------------------------------------
\* Properties of a popup opened during the exit delay.

\* The popup's node leaves the document in this step.
NodeRemoved == element /\ ~element'

\* show() was called after the last hide() that took effect: the keydown
\* handler, which show() registers and hide() takes down, is in place.
ShownSinceLastHide == keydownListener

\* C31: the popup's node is removed only when a close action came after the
\* last show(); the removal pending from an earlier hide() does not take away
\* a popup opened since.
C31_RemovalOnlyAfterCloseOfLatestShow ==
    [][NodeRemoved => ~ShownSinceLastHide]_vars

----------------------------------------------------------------------------
\* Properties of the adapters' process routines.

\* The trigger controls surface s holds for its textbox: those inserted for
\* the form around it and those inserted for the textbox itself.
ControlsOfTextbox(s) == buttons[<<"form", s>>] + buttons[<<"textbox", s>>]

\* C32: on Instagram a mounted content-editable textbox inside a form has at
\* most one trigger control, in whatever order processTextbox and processForm
\* were applied.
C32_TextboxInFormHasOneControl ==
    \A s \in Surfaces :
        platform = "instagram" /\ mounted[s] /\ layout[s] = "formTextbox"
            => ControlsOfTextbox(s) <= 1

\* Container k was skipped for want of an editable element or of an anchor.
InjectionMiss(k) ==
    /\ platform = "youtube"
    /\ Present(Adapter, k)
    /\ layout[k[2]] \in {"noEditable", "noAnchor"}

\* C34: a container enters the ProcessedSet only in a step that inserts a
\* trigger control for it, so every recorded container has one; a container
\* skipped for want of an anchor is not recorded, and its routine, applied
\* again once the anchor is there, inserts the control.
C34_RecordedOnlyWithControl ==
    /\ [](\A k \in Keys :
            /\ k \in processedInputs => buttons[k] >= 1
            /\ InjectionMiss(k) /\ buttons[k] = 0 =>
                  /\ k \notin processedInputs
                  /\ processKey([Adapter EXCEPT !.layout[k[2]] = "full"], k)
                        = injectAndRecord([Adapter EXCEPT !.layout[k[2]] = "full"], k))
    /\ [][\A k \in Keys :
            k \notin processedInputs /\ k \in processedInputs' =>
                buttons'[k] = Min(buttons[k] + 1, MaxButtons)]_vars

\* C34 witness: the YouTube adapter has started and scanned, no timer is
\* pending, and the mounted comment box without an anchor has no control and is
\* not recorded.
C34_Witness ==
    /\ platform = "youtube"
    /\ started
    /\ routeTimers = 0 /\ pendingScans = 0
    /\ mounted[1] /\ layout[1] = "noAnchor"
    /\ buttons[<<"main", 1>>] = 0
    /\ <<"main", 1>> \notin processedInputs

----------------------------------------------------------------------------
\* Properties of the hide() that follows an insertion.

\* handleSuggestionAction resumes after `await this.onInsert(...)` for run r
\* and its hide() takes effect.
InsertionHides(r) ==
    /\ awaiting[r] \in {"insert", "stats"}
    /\ awaiting'[r] = "none"
    /\ hideTimers' = hideTimers + 1

\* C33: the hide() that follows an insertion takes effect only on the showing
\* of the popup in which the suggestion was chosen, never on a popup opened
\* since.
C33_InsertionClosesOnlyItsOwnPopup ==
    [][\A r \in RunIds :
          InsertionHides(r) => session.chosen[r] = session.opened]_vars

\* C35: a trigger control is inserted for a container, and the container
\* recorded, only in a step in which its surface passes the visibility check.
C35_NoControlForHiddenSurface ==
    [][\A k \in Keys :
          (buttons'[k] > buttons[k] \/ (k \notin processedInputs /\ k \in processedInputs'))
              => visible'[k[2]]]_vars

----------------------------------------------------------------------------
\* Properties of the document-level handlers of a closed popup.

\* The popup is closed: the timer of a hide() has run and no show() followed.
PopupClosed == ~isVisible

\* C36: while the popup is closed neither handleKeyDown nor handleClickOutside
\* is registered on the document.
C36_NoHandlersWhileClosed ==
    PopupClosed => ~keydownListener /\ ~clickListener

----------------------------------------------------------------------------
\* Properties of the stored statistics.

\* No increment or reset call is in progress.
StatsQuiet == \A o \in 1..MaxOps : statsStore.ops[o].pc = "idle"

\* C37: once every call has been handled and none was a reset, the stored
\* totalRepliesGenerated is the number of generation notifications and the
\* stored repliesInserted the number of insertion notifications.
C37_NoIncrementLost ==
    StatsQuiet /\ statsStore.resets = 0 /\ statsStore.calls > 0 =>
        /\ statsStore.stored.present
        /\ statsStore.stored.totalRepliesGenerated = statsStore.generated
        /\ statsStore.stored.repliesInserted = statsStore.inserted

RECURSIVE SumCounts(_, _)
SumCounts(f, S) ==
    IF S = {} THEN 0
    ELSE LET x == CHOOSE y \in S : TRUE IN f[x] + SumCounts(f, S \ {x})

\* The counters of the stored record agree with each other.
StatsConsistent(rec) ==
    /\ rec.totalRepliesGenerated = SumCounts(rec.repliesByPlatform, StatPlatforms)
    /\ rec.totalRepliesGenerated = SumCounts(rec.repliesByTone, StatTones)

\* C38: from empty storage on, every record written has totalRepliesGenerated
\* equal to the sum of repliesByPlatform and to the sum of repliesByTone, and
\* the record written by resetStats has every counter zero.
C38_WrittenRecordsConsistent ==
    /\ statsStore.stored.present => StatsConsistent(statsStore.stored)
    /\ statsStore.writer = "reset" =>
          statsStore.stored = [NoRecord EXCEPT !.present = TRUE]

====
